---------------------------- MODULE Spec2Model ----------------------------
(***************************************************************************)
(* Model of the limit-order-book analytics backend (src/backend):          *)
(*   - DataValidator, AlertManager and AnalyticsEngine (analytics_core.py) *)
(*   - SnapshotProcessor (snapshot_processor.py)                           *)
(*   - the analytics workers, the session replay/broadcast loops and the   *)
(*     WebSocket endpoint (main.py), UserSession and SessionManager        *)
(*     (session_replay.py).                                                *)
(*                                                                         *)
(* Units.  Prices are integers in ticks of 0.01 (100.05 is 10005), volumes *)
(* are integers, wall-clock time is an integer number of seconds.  The two *)
(* EWMA baselines are kept in fixed point (value * FP, rounded down at     *)
(* every update); every comparison against them is made on that scale.     *)
(* A float that is NaN, +-Inf or None (everything _is_valid_number         *)
(* rejects) is the marker NaN.                                             *)
(***************************************************************************)
EXTENDS Integers, Sequences, FiniteSets, TLC

\* ------------------------------------------------------------------------
\* Bounds of the model
\* ------------------------------------------------------------------------
MaxCalls == 4        \* engine calls explored per run of Spec
MaxClock == 6        \* the wall clock stops advancing at this second

\* ------------------------------------------------------------------------
\* Program constants
\* ------------------------------------------------------------------------
DEDUP_WINDOW  == 5       \* AlertManager(dedup_window_seconds=5)
GAP_THRESHOLD == 50      \* "tiny" liquidity
DEFAULT_PRICE == 10000   \* _sanitize_number(p, 100.0)
DEFAULT_VOLUME == 0      \* _sanitize_number(v, 0.0)
INIT_AVG_SPREAD == 5     \* self.avg_spread = 0.05
INIT_AVG_L1_VOL == 10    \* self.avg_l1_vol = 10.0
ALPHA_INV == 20          \* self.alpha = 0.05
FP == 1000               \* fixed-point scale of the EWMA baselines
HISTORY_WINDOW == 600    \* self.window_size
ALERT_HISTORY_MAX == 1000
ICEBERG_TTL == 300       \* five minutes

NaN  == 0 - 999999       \* a value _is_valid_number rejects
None == 0 - 888888       \* Python None in an integer-valued attribute

BID == 1
ASK == 2

\* ------------------------------------------------------------------------
\* Small helpers
\* ------------------------------------------------------------------------
Min(a, b) == IF a < b THEN a ELSE b
Max(a, b) == IF a > b THEN a ELSE b
Abs(a)    == IF a < 0 THEN 0 - a ELSE a
Range(s)  == { s[i] : i \in DOMAIN s }
Take(s, n) == SubSeq(s, 1, Min(n, Len(s)))
Last(s)   == s[Len(s)]
\* deque(maxlen=n).append(x)
RingAppend(s, x, n) ==
    IF Len(s) >= n THEN Append(Tail(s), x) ELSE Append(s, x)

RECURSIVE SumSeq(_)
SumSeq(s) == IF s = <<>> THEN 0 ELSE Head(s) + SumSeq(Tail(s))

\* round(n / d) for d > 0, ties to even (Python's float formatting)
RoundDiv(n, d) ==
    LET q == n \div d
        r == n % d
    IN  IF 2 * r > d THEN q + 1
        ELSE IF 2 * r < d THEN q
        ELSE IF q % 2 = 0 THEN q ELSE q + 1

\* ------------------------------------------------------------------------
\* Snapshots.  A snapshot is a record
\*   [has : the keys present, mid : price, bids, asks : sequences of levels]
\* where a level is normally <<price, volume>>.
\* ------------------------------------------------------------------------
Snap(mid, bids, asks) ==
    [has |-> {"bids", "asks", "mid_price"}, mid |-> mid, bids |-> bids, asks |-> asks]

S_norm    == Snap(10000, << <<9995, 60>> >>, << <<10005, 60>> >>)
S_deep    == Snap(10000, << <<9995, 100>>, <<9990, 100>>, <<9985, 100>> >>,
                         << <<10005, 10>>, <<10010, 10>>, <<10015, 10>> >>)
S_uneven  == Snap(10000, << <<9995, 60>>, <<9990, 60>> >>, << <<10005, 60>> >>)
S_zero    == Snap(10000, << <<9995, 0>> >>, << <<10005, 0>> >>)
S_askzero == Snap(10000, << <<9995, 60>> >>, << <<10005, 0>> >>)
S_neg     == Snap(10000, << <<9995, 0 - 100>> >>, << <<10005, 60>> >>)
S_nanmid  == Snap(NaN,   << <<9995, 60>> >>, << <<10005, 60>> >>)
S_nanbid  == Snap(NaN,   << <<NaN, 60>> >>, << <<10000, 60>> >>)
S_crossed == Snap(10000, << <<10010, 60>> >>, << <<9990, 60>> >>)
S_empty   == Snap(10000, <<>>, <<>>)
S_missing == [has |-> {}, mid |-> None, bids |-> <<>>, asks |-> <<>>]
S_badlevel == Snap(10000, << <<9995>> >>, << <<10005, 60>> >>)
S_move    == Snap(10030, << <<10025, 60>> >>, << <<10035, 60>> >>)

\* ------------------------------------------------------------------------
\* DataValidator
\* ------------------------------------------------------------------------
_is_valid_number(v) == v # NaN /\ v # None

\* One validation error message: which side (0 for the book as a whole),
\* which check (1 not a pair, 2 price, 3 volume, 4 empty side, 5 mid price,
\* 6 crossed, 7 negative spread, 8 wide spread, 9 missing field) and level.
Err(side, check, level) == side * 1000 + check * 100 + level

\* errors appended for one side's levels (first 10 levels are checked)
RECURSIVE LevelErrors(_, _, _)
LevelErrors(levels, side, i) ==
    IF levels = <<>> THEN <<>>
    ELSE LET l == Head(levels)
             e == IF Len(l) # 2 THEN << Err(side, 1, i) >>
                  ELSE (IF ~_is_valid_number(l[1]) \/ l[1] <= 0
                           THEN << Err(side, 2, i) >> ELSE <<>>)
                       \o (IF ~_is_valid_number(l[2]) \/ l[2] < 0
                           THEN << Err(side, 3, i) >> ELSE <<>>)
         IN  e \o LevelErrors(Tail(levels), side, i + 1)

SideErrors(levels, side) ==
    IF Len(levels) = 0 THEN << Err(side, 4, 0) >>
    ELSE LevelErrors(Take(levels, 10), side, 0)

\* validate_snapshot: the list of errors; the snapshot is valid iff it is empty
validate_snapshot(snap) ==
    IF snap.has # {"bids", "asks", "mid_price"}
    THEN (IF "bids" \notin snap.has THEN << Err(0, 9, 1) >> ELSE <<>>)
         \o (IF "asks" \notin snap.has THEN << Err(0, 9, 2) >> ELSE <<>>)
         \o (IF "mid_price" \notin snap.has THEN << Err(0, 9, 3) >> ELSE <<>>)
    ELSE LET e1 == SideErrors(snap.bids, BID) \o SideErrors(snap.asks, ASK)
                   \o (IF ~_is_valid_number(snap.mid) \/ snap.mid <= 0
                       THEN << Err(0, 5, 0) >> ELSE <<>>)
         IN  IF Len(snap.bids) > 0 /\ Len(snap.asks) > 0 /\ e1 = <<>>
             THEN LET best_bid == snap.bids[1][1]
                      best_ask == snap.asks[1][1]
                      spread   == best_ask - best_bid
                  IN  (IF best_bid >= best_ask THEN << Err(0, 6, 0) >> ELSE <<>>)
                      \o (IF spread < 0 THEN << Err(0, 7, 0) >>
                          ELSE IF 10 * spread > best_ask
                               THEN << Err(0, 8, 0) >> ELSE <<>>)
             ELSE e1

is_valid(snap) == validate_snapshot(snap) = <<>>

_sanitize_number(v, default) == IF _is_valid_number(v) THEN v ELSE default

\* "for p, v in snapshot['bids']" raises when a level is not a pair
SanitizeRaises(snap) ==
    \/ "bids" \in snap.has /\ \E i \in DOMAIN snap.bids : Len(snap.bids[i]) # 2
    \/ "asks" \in snap.has /\ \E i \in DOMAIN snap.asks : Len(snap.asks[i]) # 2

SanitizeLevels(levels) ==
    [i \in DOMAIN levels |->
        << _sanitize_number(levels[i][1], DEFAULT_PRICE),
           _sanitize_number(levels[i][2], DEFAULT_VOLUME) >>]

sanitize_snapshot(snap) ==
    [has  |-> snap.has,
     mid  |-> IF "mid_price" \in snap.has
              THEN _sanitize_number(snap.mid, DEFAULT_PRICE) ELSE snap.mid,
     bids |-> IF "bids" \in snap.has THEN SanitizeLevels(snap.bids) ELSE snap.bids,
     asks |-> IF "asks" \in snap.has THEN SanitizeLevels(snap.asks) ELSE snap.asks]


\* ------------------------------------------------------------------------
\* Alerts.  An alert is [type, severity, msg]; msg is the tuple of numbers
\* the message string is formatted from (after the formatting's rounding),
\* so two alerts have the same message iff they have the same msg.
\* ------------------------------------------------------------------------
Alert(t, sev, m) == [type |-> t, severity |-> sev, msg |-> m]

ESCALATION_MARK == 0 - 1   \* " [ESCALATED: n occurrences]" is <<..., mark, n>>

escalation_thresholds ==
    [t \in {"SPOOFING", "DEPTH_SHOCK", "HEAVY_IMBALANCE"} |->
        IF t = "SPOOFING" THEN 3 ELSE IF t = "DEPTH_SHOCK" THEN 2 ELSE 5]

AlertManagerInit ==
    [recent_alerts |-> <<>>,      \* alert_hash -> last accepted time
     alert_counts  |-> <<>>,      \* type -> count
     alert_history |-> <<>>]      \* audit ring

\* md5 of "type_message": one hash per (type, message)
_hash_alert(alert) == <<alert.type, alert.msg>>

IsSuppressed(am, alert, current_time) ==
    LET h == _hash_alert(alert)
    IN  /\ h \in DOMAIN am.recent_alerts
        /\ current_time - am.recent_alerts[h] < DEDUP_WINDOW

\* should_suppress: <<suppress?, alert manager afterwards>>
should_suppress(am, alert, current_time) ==
    IF IsSuppressed(am, alert, current_time)
    THEN <<TRUE, am>>
    ELSE <<FALSE, [am EXCEPT !.recent_alerts =
                      (_hash_alert(alert) :> current_time) @@ am.recent_alerts]>>

AlertCount(am, t) == IF t \in DOMAIN am.alert_counts THEN am.alert_counts[t] ELSE 0

\* escalate_severity: <<alert afterwards, alert manager afterwards>>
escalate_severity(am, alert) ==
    LET t  == alert.type
        n  == AlertCount(am, t) + 1
        am2 == [am EXCEPT !.alert_counts = (t :> n) @@ am.alert_counts]
        a2 == IF t \in DOMAIN escalation_thresholds /\ n >= escalation_thresholds[t]
              THEN IF alert.severity = "high"
                   THEN [alert EXCEPT !.severity = "critical",
                                      !.msg = alert.msg \o <<ESCALATION_MARK, n>>]
                   ELSE IF alert.severity = "medium"
                        THEN [alert EXCEPT !.severity = "high"]
                        ELSE alert
              ELSE alert
    IN  <<a2, am2>>

log_alert(am, alert, timestamp) ==
    [am EXCEPT !.alert_history =
        RingAppend(am.alert_history,
                   [timestamp |-> timestamp, type |-> alert.type,
                    severity |-> alert.severity, msg |-> alert.msg],
                   ALERT_HISTORY_MAX)]

cleanup_old_deduplications(am, current_time) ==
    LET keep == { h \in DOMAIN am.recent_alerts :
                    ~(current_time - am.recent_alerts[h] > DEDUP_WINDOW * 2) }
    IN  [am EXCEPT !.recent_alerts = [h \in keep |-> am.recent_alerts[h]]]

\* the loop "for alert in anomalies" of process_snapshot:
\* <<filtered_anomalies, alert manager afterwards>>
RECURSIVE FilterAlerts(_, _, _, _)
FilterAlerts(am, anomalies, current_time, filtered) ==
    IF anomalies = <<>> THEN <<filtered, am>>
    ELSE LET s == should_suppress(am, Head(anomalies), current_time)
         IN  IF s[1]
             THEN FilterAlerts(s[2], Tail(anomalies), current_time, filtered)
             ELSE LET esc == escalate_severity(s[2], Head(anomalies))
                      am3 == log_alert(esc[2], esc[1], current_time)
                  IN  FilterAlerts(am3, Tail(anomalies), current_time,
                                   Append(filtered, esc[1]))

\* ------------------------------------------------------------------------
\* AnalyticsEngine state (AnalyticsEngine.__init__)
\* ------------------------------------------------------------------------
\* Rings whose contents the modelled code never reads back are kept as their
\* length (n_...); deque(maxlen=m).append on such a ring is Bump(n, m).
Bump(n, maxlen) == Min(n + 1, maxlen)

EngineInit(now) ==
    [alert_manager     |-> AlertManagerInit,
     last_cleanup_time |-> now,
     prev_best_bid     |-> None,
     prev_best_ask     |-> None,
     prev_bid_q        |-> 0,
     prev_ask_q        |-> 0,
     n_mid_price_history |-> 0,
     n_history         |-> 0,
     n_feature_history |-> 0,
     avg_spread        |-> INIT_AVG_SPREAD * FP,
     avg_l1_vol        |-> INIT_AVG_L1_VOL * FP,
     n_gap_history     |-> 0,
     prev_bids         |-> <<>>,
     prev_asks         |-> <<>>,
     prev_total_bid_depth |-> 0,
     prev_total_ask_depth |-> 0,
     n_volume_volatility_history |-> 0,
     spoofing_events_count |-> 0,
     n_spoofing_risk_history |-> 0,
     order_event_timestamps |-> <<>>,
     quote_update_rate |-> <<>>,
     n_layering_history |-> 0,
     price_momentum    |-> <<>>,
     n_aggressive_order_history |-> 0,
     volume_clustering |-> <<>>,
     iceberg_candidates |-> <<>>,
     n_repeated_fills_history |-> 0]

\* ------------------------------------------------------------------------
\* AnalyticsEngine.process_snapshot, block by block.  Each block is an
\* operator from the engine before it to the engine after it, a predicate
\* telling when the block raises, and the alert(s) it appends.
\* ------------------------------------------------------------------------

\* Order-flow imbalance of the snapshot against the remembered L1
OFI(e, s) ==
    IF e.prev_best_bid = None THEN 0
    ELSE LET bpx == s.bids[1][1]  bq == s.bids[1][2]
             apx == s.asks[1][1]  aq == s.asks[1][2]
             bidpart == IF bpx > e.prev_best_bid THEN bq
                        ELSE IF bpx < e.prev_best_bid THEN 0 - e.prev_bid_q
                        ELSE bq - e.prev_bid_q
             askpart == IF apx > e.prev_best_ask THEN e.prev_ask_q
                        ELSE IF apx < e.prev_best_ask THEN 0 - aq
                        ELSE 0 - (aq - e.prev_ask_q)
         IN  bidpart + askpart

\* lines 876-890: remember L1, append the mid price
L1Block(e, s) ==
    [e EXCEPT !.prev_best_bid = s.bids[1][1],
              !.prev_best_ask = s.asks[1][1],
              !.prev_bid_q    = s.bids[1][2],
              !.prev_ask_q    = s.asks[1][2],
              !.n_mid_price_history = Bump(@, 100)]

\* weighted OBI loop: asks[i] is read for every i < min(5, len(bids))
OBIRaises(s) == Len(s.asks) < Min(5, Len(s.bids))

\* exp(-0.5 * i) * 1000 for i = 0..4
OBIWeight == <<1000, 607, 368, 223, 135>>

W_obi(levels, n) == SumSeq([i \in 1..n |-> levels[i][2] * OBIWeight[i]])

\* obi * 100, rounded as "{obi:.2f}" rounds
OBI100(s) ==
    LET n  == Min(5, Len(s.bids))
        wb == W_obi(s.bids, n)
        wa == W_obi(s.asks, n)
    IN  IF wb + wa > 0 THEN RoundDiv(100 * (wb - wa), wb + wa) ELSE 0

HeavyImbalance(s) ==
    LET n  == Min(5, Len(s.bids))
        wb == W_obi(s.bids, n)
        wa == W_obi(s.asks, n)
    IN  wb + wa > 0 /\ 2 * Abs(wb - wa) > wb + wa

\* lines 1007-1027: price history, spread EWMA, feature ring
HistoryBlock(e, s) ==
    LET spread == s.asks[1][1] - s.bids[1][1]
    IN  [e EXCEPT !.n_history = Bump(@, HISTORY_WINDOW),
                  !.avg_spread = ((ALPHA_INV - 1) * @ + spread * FP) \div ALPHA_INV,
                  !.n_feature_history = Bump(@, 600)]

\* liquidity-gap loop: asks[i] is read for every i < min(10, len(bids))
GapsRaise(s) == Len(s.asks) < Min(10, Len(s.bids))

\* the list "gaps", as <<side, level>> pairs in the order they are appended
RECURSIVE Gaps(_, _, _)
Gaps(s, i, n) ==
    IF i > n THEN <<>>
    ELSE (IF s.bids[i][2] < GAP_THRESHOLD THEN << <<BID, i>> >> ELSE <<>>)
         \o (IF s.asks[i][2] < GAP_THRESHOLD THEN << <<ASK, i>> >> ELSE <<>>)
         \o Gaps(s, i + 1, n)

RECURSIVE Flatten(_)
Flatten(ss) == IF ss = <<>> THEN <<>> ELSE Head(ss) \o Flatten(Tail(ss))

GapAlerts(s) ==
    LET gaps == Gaps(s, 1, Min(10, Len(s.bids)))
        sev  == IF Len(gaps) > 6 \/ \E k \in DOMAIN gaps : gaps[k][2] <= 2
                THEN "critical"
                ELSE IF Len(gaps) > 3 THEN "high" ELSE "medium"
    IN  IF gaps = <<>> THEN <<>>
        ELSE << Alert("LIQUIDITY_GAP", sev,
                      <<Len(gaps)>> \o Flatten(Take(gaps, 5))
                      \o <<IF Len(gaps) > 5 THEN 1 ELSE 0>>) >>

GapBlock(e, s) == [e EXCEPT !.n_gap_history = Bump(@, 100)]

TotalDepth(levels) == SumSeq([i \in DOMAIN levels |-> levels[i][2]])

\* depth shock: ask_drop divides by prev_total_ask_depth
DepthRaises(e, s) == e.prev_total_bid_depth > 0 /\ e.prev_total_ask_depth = 0

DepthAlerts(e, s) ==
    LET pb == e.prev_total_bid_depth
        pa == e.prev_total_ask_depth
        db == pb - TotalDepth(s.bids)
        da == pa - TotalDepth(s.asks)
        \* x / p > 0.3 with the sign of p taken into account
        Over(x, p) == IF p > 0 THEN 10 * x > 3 * p ELSE 10 * x < 3 * p
        Pct(x, p)  == IF p > 0 THEN RoundDiv(100 * x, p)
                      ELSE RoundDiv(0 - 100 * x, 0 - p)
    IN  IF pb > 0 /\ pa # 0 /\ (Over(db, pb) \/ Over(da, pa))
        THEN << Alert("DEPTH_SHOCK", "high", <<Pct(db, pb), Pct(da, pa)>>) >>
        ELSE <<>>

\* lines 1143-1147: L1 volume EWMA and its volatility ring
L1VolBlock(e, s) ==
    LET twice_l1 == s.bids[1][2] + s.asks[1][2]
    IN  [e EXCEPT !.avg_l1_vol =
                     ((ALPHA_INV - 1) * @ + (twice_l1 * FP) \div 2) \div ALPHA_INV,
                  !.n_volume_volatility_history = Bump(@, 20)]

\* one side's spoofing test against the remembered book
SpoofSide(e, prev, cur) ==
    /\ Len(prev) > 0
    /\ prev[1][2] * FP > 3 * e.avg_l1_vol
    /\ 10 * cur[1][2] * FP < 3 * e.avg_l1_vol
    /\ cur[1][1] = prev[1][1]

SpoofAlerts(e, s) ==
    LET onBid == SpoofSide(e, e.prev_bids, s.bids)
        onAsk == SpoofSide(e, e.prev_asks, s.asks)
        Ratio10(prev, cur) == RoundDiv(10 * prev[1][2], Max(cur[1][2], 1))
    IN  IF onAsk THEN << Alert("SPOOFING", "critical",
                               <<ASK, Ratio10(e.prev_asks, s.asks)>>) >>
        ELSE IF onBid THEN << Alert("SPOOFING", "critical",
                                    <<BID, Ratio10(e.prev_bids, s.bids)>>) >>
        ELSE <<>>

\* lines 1158-1195: event count, its decay, the risk ring
SpoofBlock(e, s) ==
    LET hits  == (IF SpoofSide(e, e.prev_bids, s.bids) THEN 1 ELSE 0)
                 + (IF SpoofSide(e, e.prev_asks, s.asks) THEN 1 ELSE 0)
        count == e.spoofing_events_count + hits
    IN  [e EXCEPT !.spoofing_events_count =
                     IF e.n_spoofing_risk_history % 10 = 0
                     THEN Max(0, count - 1) ELSE count,
                  !.n_spoofing_risk_history = Bump(@, 100)]

\* quote stuffing (the same code in both detectors)
QuoteBlock(e, now) ==
    LET stamps == RingAppend(e.order_event_timestamps, now, 100)
        update_rate == Cardinality({i \in DOMAIN stamps : stamps[i] > now - 1})
    IN  [e EXCEPT !.order_event_timestamps = stamps,
                  !.quote_update_rate = RingAppend(@, update_rate, 20)]

\* evaluated on the engine after QuoteBlock
QuoteAlerts(e) ==
    LET rates == e.quote_update_rate
        update_rate == Last(rates)
    IN  IF update_rate > 20 /\ update_rate * Len(rates) > 3 * SumSeq(rates)
        THEN << Alert("QUOTE_STUFFING", "critical",
                      <<update_rate, RoundDiv(10 * SumSeq(rates), Len(rates))>>) >>
        ELSE <<>>

LargeCount(e, levels) ==
    Cardinality({i \in DOMAIN Take(levels, 5) : levels[i][2] * FP > 2 * e.avg_l1_vol})

\* a detector that is content with a lead of two large levels
LayeringSideByTwo(e, s) ==
    LET b == LargeCount(e, s.bids)
        a == LargeCount(e, s.asks)
    IN  IF b >= 3 /\ b > a + 1 THEN BID
        ELSE IF a >= 3 /\ a > b + 1 THEN ASK ELSE 0

\* 0 when no side is layered
LayeringSide(e, s) ==
    LET b == LargeCount(e, s.bids)
        a == LargeCount(e, s.asks)
    IN  IF b >= 3 /\ b > a + 2 THEN BID
        ELSE IF a >= 3 /\ a > b + 2 THEN ASK ELSE 0

LayeringScore(e, s) ==
    LET side == LayeringSide(e, s)
    IN  IF side = BID THEN Min(LargeCount(e, s.bids) * 20, 100)
        ELSE IF side = ASK THEN Min(LargeCount(e, s.asks) * 20, 100) ELSE 0

LayeringAlert(e, s) ==
    LET side == LayeringSide(e, s)
        n    == IF side = BID THEN LargeCount(e, s.bids) ELSE LargeCount(e, s.asks)
    IN  Alert("LAYERING",
              IF LayeringScore(e, s) > 70 THEN "critical" ELSE "high",
              <<n, side, LayeringScore(e, s)>>)

\* process_snapshot: history is appended whenever a side is layered, the
\* alert needs layering_score > 50
LayeringBlock(e, s) ==
    IF LayeringSide(e, s) # 0
    THEN [e EXCEPT !.n_layering_history = Bump(@, 50)] ELSE e

LayeringAlerts(e, s) ==
    IF LayeringScore(e, s) > 50 THEN << LayeringAlert(e, s) >> ELSE <<>>

\* detect_advanced_anomalies: the alert is appended whenever a side is layered
AdvLayeringAlerts(e, s) ==
    IF LayeringSide(e, s) # 0 THEN << LayeringAlert(e, s) >> ELSE <<>>

\* ---- momentum ignition (evaluated on the engine BEFORE the mid is appended)
\* |price_change| > 0.002 and current_l1_vol > 2.5 * avg_l1_vol
MomentumTrigger(e, s) ==
    /\ Len(e.price_momentum) > 0
    /\ _is_valid_number(s.mid)
    /\ LET prev_mid == Last(e.price_momentum)
       IN  /\ _is_valid_number(prev_mid) /\ prev_mid > 0
           /\ 1000 * Abs(s.mid - prev_mid) > 2 * prev_mid
    /\ (s.bids[1][2] + s.asks[1][2]) * FP > 5 * e.avg_l1_vol

MomentumBlock(e, s) ==
    [e EXCEPT !.price_momentum = RingAppend(@, s.mid, 20)]

\* recent_changes reads price_momentum[-4]: with exactly three entries the
\* index is out of range; a zero entry is a division by zero
MomentumRaises(e, s) ==
    /\ MomentumTrigger(e, s)
    /\ LET pm == MomentumBlock(e, s).price_momentum
       IN  \/ Len(pm) = 3
           \/ Len(pm) >= 4 /\ \E k \in 1..3 : pm[Len(pm) - k] = 0

SameDirection(e, s) ==
    LET pm == MomentumBlock(e, s).price_momentum
        n  == Len(pm)
        Up(i)   == /\ _is_valid_number(pm[i]) /\ _is_valid_number(pm[i - 1])
                   /\ (pm[i] - pm[i - 1]) * pm[i - 1] > 0
        Down(i) == /\ _is_valid_number(pm[i]) /\ _is_valid_number(pm[i - 1])
                   /\ (pm[i] - pm[i - 1]) * pm[i - 1] < 0
    IN  /\ n >= 4
        /\ \/ \A i \in (n - 2)..n : Up(i)
           \/ \A i \in (n - 2)..n : Down(i)

MomentumHit(e, s) == MomentumTrigger(e, s) /\ SameDirection(e, s)

PriceChange10000(e, s) ==
    RoundDiv(10000 * (s.mid - Last(e.price_momentum)), Last(e.price_momentum))

\* process_snapshot: the hit is recorded, the alert needs two recorded hits
AggressiveBlock(e, s) ==
    IF MomentumHit(e, s)
    THEN [e EXCEPT !.n_aggressive_order_history = Bump(@, 30)] ELSE e

MomentumAlerts(e, s) ==
    IF MomentumHit(e, s) /\ AggressiveBlock(e, s).n_aggressive_order_history >= 2
    THEN << Alert("MOMENTUM_IGNITION", "critical",
                  <<PriceChange10000(e, s),
                    RoundDiv(s.bids[1][2] + s.asks[1][2], 2)>>) >>
    ELSE <<>>

\* detect_advanced_anomalies: the alert is appended on the first hit
AdvMomentumAlerts(e, s) ==
    IF MomentumHit(e, s)
    THEN << Alert("MOMENTUM_IGNITION", "critical", <<PriceChange10000(e, s)>>) >>
    ELSE <<>>

\* ---- wash trading (the same code in both detectors)
\* the loop over the first min(3, len(bids), len(asks)) levels: the ring,
\* which keeps bid_vol + ask_vol (twice the stored volume), and whether the
\* division by max(bid_vol, ask_vol) raised
RECURSIVE WashLoop(_, _, _, _, _)
WashLoop(ring, s, i, n, avg) ==
    IF i > n THEN [ring |-> ring, raised |-> FALSE]
    ELSE LET bv == s.bids[i][2]
             av == s.asks[i][2]
             m  == Max(bv, av)
         IN  IF m = 0 THEN [ring |-> ring, raised |-> TRUE]
             ELSE IF (IF m > 0 THEN 20 * Abs(bv - av) < m ELSE 20 * Abs(bv - av) > m)
                     /\ bv * FP > avg
                  THEN WashLoop(RingAppend(ring, bv + av, 50), s, i + 1, n, avg)
                  ELSE WashLoop(ring, s, i + 1, n, avg)

WashResult(e, s) ==
    WashLoop(e.volume_clustering, s, 1, Min(3, Min(Len(s.bids), Len(s.asks))),
             e.avg_l1_vol)

WashRaises(e, s) == WashResult(e, s).raised

WashBlock(e, s) == [e EXCEPT !.volume_clustering = WashResult(e, s).ring]

\* evaluated on the engine after WashBlock
WashAlerts(e) ==
    LET ring == e.volume_clustering
        n    == Len(ring)
        rec  == SubSeq(ring, n - 4, n)
        S    == SumSeq(rec)
        Q    == SumSeq([i \in 1..5 |-> rec[i] * rec[i]])
        var100 == 5 * Q - S * S          \* (10 * vol_std)^2
        std  == CHOOSE r \in 0..200 :
                   /\ 25 * (2 * r - 1) * (2 * r - 1) <= var100 \/ r = 0
                   /\ var100 < 25 * (2 * r + 1) * (2 * r + 1)
    IN  IF n >= 5 /\ 100 * var100 < S * S /\ S * FP > 15 * e.avg_l1_vol
        THEN << Alert("WASH_TRADING", "high", <<RoundDiv(S, 10), std>>) >>
        ELSE <<>>

\* ---- iceberg orders
\* One pass of "for i in range(min(3, len(levels)))" over one side.
\* iceberg_candidates maps <<side, price>> to [fills, volume, first_seen].
\* full = TRUE is process_snapshot (consistent fills are recorded from 5
\* fills on, the alert and the reset need 8); full = FALSE is
\* detect_advanced_anomalies (consistency is only looked at from 8 fills on).
\* r is [c : candidates, alerts, fills : length of repeated_fills_history].
RECURSIVE IcebergLoop(_, _, _, _, _, _)
IcebergLoop(r, levels, side, i, now, full) ==
    IF i > Min(3, Len(levels)) THEN r
    ELSE LET key == <<side, levels[i][1]>>
             volume == levels[i][2]
         IN  IF key \in DOMAIN r.c
             THEN LET cand == [r.c[key] EXCEPT !.fills = @ + 1, !.volume = @ + volume]
                      c2   == [r.c EXCEPT ![key] = cand]
                      \* 0.8 * avg_fill_size <= volume <= 1.2 * avg_fill_size
                      consistent == /\ 8 * cand.volume <= 10 * volume * cand.fills
                                    /\ 10 * volume * cand.fills <= 12 * cand.volume
                      recorded == full /\ cand.fills >= 5 /\ consistent
                      alerted  == cand.fills >= 8 /\ consistent
                      r2 == [c      |-> IF alerted
                                        THEN [k \in DOMAIN c2 \ {key} |-> c2[k]]
                                        ELSE c2,
                             alerts |-> IF alerted
                                        THEN Append(r.alerts,
                                                 Alert("ICEBERG_ORDER", "medium",
                                                       <<cand.fills, levels[i][1], side>>))
                                        ELSE r.alerts,
                             fills  |-> IF recorded THEN Bump(r.fills, 100) ELSE r.fills]
                  IN  IcebergLoop(r2, levels, side, i + 1, now, full)
             ELSE IcebergLoop([r EXCEPT !.c = (key :> [fills |-> 1, volume |-> volume,
                                                       first_seen |-> now]) @@ r.c],
                              levels, side, i + 1, now, full)

IcebergResult(e, s, now, full) ==
    LET r0 == [c |-> e.iceberg_candidates, alerts |-> <<>>,
               fills |-> e.n_repeated_fills_history]
        r1 == IcebergLoop(r0, s.bids, BID, 1, now, full)
    IN  IcebergLoop(r1, s.asks, ASK, 1, now, full)

IcebergAlerts(e, s, now, full) == IcebergResult(e, s, now, full).alerts

\* both loops, then a cleanup that forgets every candidate first seen
\* before this call
IcebergBlockForgetful(e, s, now, full) ==
    LET r    == IcebergResult(e, s, now, full)
        keep == { k \in DOMAIN r.c : ~(r.c[k].first_seen < now) }
    IN  [e EXCEPT !.iceberg_candidates = [k \in keep |-> r.c[k]],
                  !.n_repeated_fills_history = r.fills]

\* both loops, then the cleanup of candidates older than five minutes
IcebergBlock(e, s, now, full) ==
    LET r    == IcebergResult(e, s, now, full)
        keep == { k \in DOMAIN r.c : ~(r.c[k].first_seen < now - ICEBERG_TTL) }
    IN  [e EXCEPT !.iceberg_candidates = [k \in keep |-> r.c[k]],
                  !.n_repeated_fills_history = r.fills]

\* lines 1426-1429: remember the book
PrevBookBlock(e, s) ==
    [e EXCEPT !.prev_bids = s.bids,
              !.prev_asks = s.asks,
              !.prev_total_bid_depth = TotalDepth(s.bids),
              !.prev_total_ask_depth = TotalDepth(s.asks)]

ImbalanceAlerts(s) ==
    IF HeavyImbalance(s)
    THEN << Alert("HEAVY_IMBALANCE", "high",
                  <<IF OBI100(s) > 0 THEN BID ELSE ASK, OBI100(s)>>) >>
    ELSE <<>>

\* lines 1456-1471: dedup, escalation, audit log, periodic cleanup
AlertManagerBlock(e, anomalies, now) ==
    LET f   == FilterAlerts(e.alert_manager, anomalies, now, <<>>)
        due == now - e.last_cleanup_time > 60
    IN  [e EXCEPT !.alert_manager = IF due THEN cleanup_old_deduplications(f[2], now)
                                    ELSE f[2],
                  !.last_cleanup_time = IF due THEN now ELSE @]

FilteredAnomalies(e, anomalies, now) ==
    FilterAlerts(e.alert_manager, anomalies, now, <<>>)[1]

\* lines 1476-1482; ms10 is the measured processing time in tenths of a ms
SlowAlerts(ms10) ==
    IF ms10 > 1000 THEN << Alert("PROCESSING_SLOW", "medium", <<ms10>>) >> ELSE <<>>

\* ------------------------------------------------------------------------
\* AnalyticsEngine.process_snapshot(snapshot) at wall-clock time now, taking
\* ms10 tenths of a millisecond.  The value is
\*   [engine    : the engine afterwards,
\*    outcome   : "ok" (enriched snapshot returned), "invalid" (the minimal
\*                snapshot of line 840 returned) or "raised",
\*    anomalies : the returned snapshot's anomalies,
\*    metrics   : whether the returned snapshot carries the metric fields,
\*    ofi       : the raw order-flow imbalance put in the snapshot]
\* ------------------------------------------------------------------------
Raised(e) ==
    [engine |-> e, outcome |-> "raised", anomalies |-> <<>>, metrics |-> FALSE, ofi |-> 0]

ValidationAlert(errors) ==
    Alert("DATA_VALIDATION_ERROR", "critical", Take(errors, 3))

\* The body of both detectors is a sequence of sections, each of which may
\* raise, change the engine and append alerts.  A frame is what a run of
\* sections has done so far: the engine, the alerts appended, and whether an
\* exception has left the function (the engine is then as the exception
\* left it).
Frame(e) == [engine |-> e, anomalies |-> <<>>, raised |-> FALSE]

\* one section: nothing after a raise; e_raise is the engine when it raises,
\* e_next the engine when it completes
Stage(fr, raises, e_raise, e_next, alerts) ==
    IF fr.raised THEN fr
    ELSE IF raises THEN [engine |-> e_raise, anomalies |-> <<>>, raised |-> TRUE]
    ELSE [engine |-> e_next, anomalies |-> fr.anomalies \o alerts, raised |-> FALSE]

\* lines 852-969: L1 state, then the weighted OBI loop
StL1(fr, s) ==
    Stage(fr, OBIRaises(s), L1Block(fr.engine, s), L1Block(fr.engine, s), <<>>)
\* lines 1007-1106: history and baselines, then the gap loop
StHistory(fr, s) ==
    Stage(fr, GapsRaise(s), HistoryBlock(fr.engine, s), HistoryBlock(fr.engine, s),
          <<>>)
\* lines 1108-1123
StGaps(fr, s) == Stage(fr, FALSE, fr.engine, GapBlock(fr.engine, s), GapAlerts(s))
\* lines 1125-1139
StDepth(fr, s) ==
    Stage(fr, DepthRaises(fr.engine, s), fr.engine, fr.engine,
          DepthAlerts(fr.engine, s))
\* lines 1142-1147
StL1Vol(fr, s) == Stage(fr, FALSE, fr.engine, L1VolBlock(fr.engine, s), <<>>)
\* lines 1158-1206
StSpoof(fr, s) ==
    Stage(fr, FALSE, fr.engine, SpoofBlock(fr.engine, s), SpoofAlerts(fr.engine, s))
\* lines 1210-1230 and 628-645
StQuote(fr, now) ==
    Stage(fr, FALSE, fr.engine, QuoteBlock(fr.engine, now),
          QuoteAlerts(QuoteBlock(fr.engine, now)))
\* lines 1232-1263
StLayering(fr, s) ==
    Stage(fr, FALSE, fr.engine, LayeringBlock(fr.engine, s),
          LayeringAlerts(fr.engine, s))
\* lines 646-672
StAdvLayering(fr, s) ==
    Stage(fr, FALSE, fr.engine, fr.engine, AdvLayeringAlerts(fr.engine, s))
\* lines 1265-1299
StMomentum(fr, s) ==
    Stage(fr, MomentumRaises(fr.engine, s), MomentumBlock(fr.engine, s),
          MomentumBlock(AggressiveBlock(fr.engine, s), s),
          MomentumAlerts(fr.engine, s))
\* lines 674-698
StAdvMomentum(fr, s) ==
    Stage(fr, MomentumRaises(fr.engine, s), MomentumBlock(fr.engine, s),
          MomentumBlock(fr.engine, s), AdvMomentumAlerts(fr.engine, s))
\* lines 1301-1332 and 700-726
StWash(fr, s) ==
    Stage(fr, WashRaises(fr.engine, s), WashBlock(fr.engine, s),
          WashBlock(fr.engine, s), WashAlerts(WashBlock(fr.engine, s)))
\* lines 1334-1423 and 728-793
StIceberg(fr, s, now, full) ==
    Stage(fr, FALSE, fr.engine, IcebergBlock(fr.engine, s, now, full),
          IcebergAlerts(fr.engine, s, now, full))
\* lines 1425-1435
StPrevBook(fr, s) ==
    Stage(fr, FALSE, fr.engine, PrevBookBlock(fr.engine, s), ImbalanceAlerts(s))

\* lines 1455-1491: the alerts go through the AlertManager, the slow-
\* processing alert is appended, the snapshot is returned
Finish(fr, e, s, now, ms10) ==
    IF fr.raised THEN Raised(fr.engine)
    ELSE [engine    |-> AlertManagerBlock(fr.engine, fr.anomalies, now),
          outcome   |-> "ok",
          anomalies |-> FilteredAnomalies(fr.engine, fr.anomalies, now)
                        \o SlowAlerts(ms10),
          metrics   |-> TRUE,
          ofi       |-> OFI(e, s)]

\* lines 849-1435: the sections in order, before the AlertManager sees
\* the alerts
Sections(e, s, now) ==
    StPrevBook(
     StIceberg(
      StWash(
       StMomentum(
        StLayering(
         StQuote(
          StSpoof(
           StL1Vol(
            StDepth(
             StGaps(
              StHistory(
               StL1(Frame(e), s), s), s), s), s), s), now), s), s), s),
      s, now, TRUE), s)

\* lines 849-1491, for a snapshot that passed validation
Enrich(e, s, now, ms10) == Finish(Sections(e, s, now), e, s, now, ms10)

\* A variant that sends the validation alert through the audit trail like
\* every other alert; the frame property of the fatal path must reject it.
process_snapshot_logging(e, snap, now, ms10) ==
    IF is_valid(snap) THEN Enrich(e, snap, now, ms10)
    ELSE IF SanitizeRaises(snap) THEN Raised(e)
    ELSE LET s2 == sanitize_snapshot(snap)
             al == ValidationAlert(validate_snapshot(s2))
         IN  IF is_valid(s2) THEN Enrich(e, s2, now, ms10)
             ELSE [engine |-> [e EXCEPT !.alert_manager = log_alert(@, al, now)],
                   outcome |-> "invalid", anomalies |-> << al >>,
                   metrics |-> FALSE, ofi |-> 0]

process_snapshot(e, snap, now, ms10) ==
    IF is_valid(snap) THEN Enrich(e, snap, now, ms10)
    ELSE IF SanitizeRaises(snap) THEN Raised(e)
    ELSE LET s2 == sanitize_snapshot(snap)
         IN  IF is_valid(s2) THEN Enrich(e, s2, now, ms10)
             ELSE [engine |-> e, outcome |-> "invalid",
                   anomalies |-> << ValidationAlert(validate_snapshot(s2)) >>,
                   metrics |-> FALSE, ofi |-> 0]

\* ------------------------------------------------------------------------
\* AnalyticsEngine.detect_advanced_anomalies(snapshot): the list of
\* anomalies (not passed through the AlertManager) and the engine afterwards
\* ------------------------------------------------------------------------
\* lines 626-793: the five detectors in order
AdvSections(fr, sm, now) ==
    StIceberg(
     StWash(
      StAdvMomentum(
       StAdvLayering(
        StQuote(fr, now), sm), sm), sm), sm, now, FALSE)

detect_advanced_anomalies(e, s, now) ==
    IF "bids" \notin s.has \/ "asks" \notin s.has \/ s.bids = <<>> \/ s.asks = <<>>
    THEN Frame(e)
    ELSE IF Len(s.bids[1]) # 2 \/ Len(s.asks[1]) # 2
    THEN [engine |-> e, anomalies |-> <<>>, raised |-> TRUE]
    ELSE AdvSections(Frame(e),
                     IF "mid_price" \in s.has THEN s
                     ELSE [s EXCEPT !.mid = DEFAULT_PRICE],
                     now)

\* ------------------------------------------------------------------------
\* The engine alone: one AnalyticsEngine called with snapshots over time
\* ------------------------------------------------------------------------
VARIABLES
    engine,    \* the AnalyticsEngine (in main.py: the module-level engine)
    clock,     \* wall-clock time, seconds
    calls,     \* number of operations performed so far
    last,      \* what the last operation was given and what it returned
    proc,      \* the SnapshotProcessor
    cf,        \* the failure counter its caller holds
    streak,    \* history: primary failures in a row since the last success
    glob,      \* main.py globals: engine_mode, cpp_client, len(data_buffer)
    wfail,     \* each worker's local consecutive_cpp_failures
    adaptive,  \* the AdaptiveProcessor
    out,       \* per worker: what it put on its processed_snapshot_queue
    wstreak,   \* history: each worker's primary failures in a row
    soloEngine, \* history: an engine fed session "A"'s snapshots only
    soloOut,   \* history: what session "A" would emit with that engine
    registry,  \* SessionManager.sessions: session id -> UserSession (0: none)
    objs,      \* every UserSession created so far, with its worker and tasks
    conns,     \* ConnectionManager.active_connections: id -> websocket
    ws,        \* the websockets: where their endpoint stands, what they got
    regime,    \* AnalyticsEngine: the regime model, its lock and its two flags
    runs,      \* every _train_kmeans_background thread started so far
    callers,   \* threads inside process_snapshot's clustering section
    router,    \* main.py: engine_mode, cpp_client, engine_state_lock
    reqs,      \* threads inside initialize_cpp_engine / switch_engine
    seen,      \* what a worker read at "engine_mode == 'cpp' and cpp_client"
    aphist,    \* history: the AdaptiveProcessor's last call and its result
    am,        \* an AlertManager driven directly
    amlast,    \* history: the last alert given to it and what came back
    lay,       \* the layering detector's input and what it appended
    vp,        \* the V-PIN bucket state of the engine and the last vpin field
    ice,       \* history: the iceberg alerts of a run of identical snapshots
    play,      \* one UserSession with its replay loop, worker and broadcaster
    ctl,       \* history: the last playback control call and what it returned
    errs,      \* metrics: the error counters
    inq,       \* a session's raw_snapshot_queue under a fast producer
    bufs,      \* main.py data_buffer and a session's data_buffer
    hist,      \* history: the last get_alert_history call and its result
    spoof,     \* history: the spoofing section's ticks, hits and decays
    twin       \* an engine that only runs the advanced post-pass, and both alert lists

engineVars == <<engine, clock, calls, last>>
procVars   == <<proc, cf, streak>>
workerVars == <<glob, wfail, adaptive, out, wstreak, soloEngine, soloOut>>
sessionVars == <<registry, objs, conns, ws>>
regimeVars == <<regime, runs, callers>>
routerVars == <<router, reqs, seen>>
unitVars   == <<aphist, am, amlast, lay, vp, ice>>
probeVars  == <<spoof, twin>>
flowVars   == <<play, ctl, errs, inq, bufs, hist, probeVars>>
restVars   == <<regimeVars, routerVars, unitVars, flowVars>>
vars == <<engineVars, procVars, workerVars, sessionVars, restVars>>

\* snapshots offered to the engine
EnginePool ==
    {S_norm, S_deep, S_uneven, S_zero, S_askzero, S_neg, S_nanmid, S_nanbid,
     S_crossed, S_empty, S_missing, S_badlevel, S_move}

\* seconds elapsed between two calls
Elapsed == {1, 4}

\* measured processing times (tenths of a millisecond); the slow one is only
\* explored for the plain snapshot
ProcessingTimes(snap) == IF snap = S_norm THEN {10, 1203} ELSE {10}

NoResult ==
    [op |-> "none", snap |-> S_empty, outcome |-> "none", anomalies |-> <<>>,
     metrics |-> FALSE, ofi |-> 0, at |-> 0]

NoProc == [engine_mode |-> "python", cpp_client |-> FALSE, analytics_engine |-> FALSE]

\* session ids and worker names ("G" is the global analytics_worker)
Sessions == {"A", "B"}
Workers  == Sessions \cup {"G"}

WebSockets == {"w1", "w2"}

\* no session in play
SessionsIdle ==
    /\ registry = [sid \in Sessions |-> 0]
    /\ objs = <<>>
    /\ conns = [sid \in Sessions |-> "none"]
    /\ ws = [w \in WebSockets |->
                [st |-> "new", sid |-> "none", obj |-> 0, got |-> <<>>]]

\* AdaptiveProcessor.__init__
AdaptiveInit ==
    [processing_times |-> <<>>, adaptive_mode |-> FALSE, skip_counter |-> 0,
     skip_ratio |-> 1]

\* no SnapshotProcessor in play
ProcIdle == proc = NoProc /\ cf = 0 /\ streak = 0

\* no worker of main.py in play
WorkersIdle ==
    /\ glob = [engine_mode |-> "unknown", cpp_client |-> FALSE, n_data_buffer |-> 0]
    /\ wfail = [w \in Workers |-> 0]
    /\ adaptive = AdaptiveInit
    /\ out = [w \in Workers |-> <<>>]
    /\ wstreak = [w \in Workers |-> 0]
    /\ soloEngine = EngineInit(0)
    /\ soloOut = <<>>

\* ------------------------------------------------------------------------
\* The parts modelled further down, as they stand after construction
\* ------------------------------------------------------------------------
\* AnalyticsEngine.__init__, regime fields.  A fitted KMeans and a cluster
\* map are named by the number of the training run that made them; 0 is the
\* unfitted KMeans and the empty map of the constructor.  training_lock is
\* "free" or names its holder.
RegimeInit ==
    [kmeans |-> 0, cluster_map |-> 0, is_fitted |-> FALSE,
     last_train_time |-> 0, training_lock |-> "free",
     training_in_progress |-> FALSE, pending_training |-> FALSE,
     n_feature_history |-> 0]

\* a thread that is not inside process_snapshot; pred is its last
\* prediction <<kmeans, cluster_map>> (<<>>: none yet)
CallerInit == [pc |-> "idle", should_retrain |-> FALSE, raw_cluster |-> 0,
               pred |-> <<>>, regime |-> 0]

RegimeIdle ==
    /\ regime = RegimeInit
    /\ runs = <<>>
    /\ callers = [c \in Sessions |-> CallerInit]

\* main.py lines 40, 43, 165, 171.  A CppAnalyticsClient is named by the number
\* of the initialize_cpp_engine call that made it; 0 is None.  probed is the
\* set of clients whose connection test has returned (history).
RouterInit ==
    [engine_mode |-> "unknown", cpp_client |-> 0, engine_state_lock |-> "free",
     USE_CPP_ENGINE |-> TRUE, probed |-> {}, n_clients |-> 0]

\* a worker that is not at its routing test
ReaderInit == [pc |-> "idle", engine_mode |-> "unknown", cpp_client |-> 0]

RouterIdle ==
    /\ router = RouterInit
    /\ reqs = <<>>
    /\ seen = [w \in Sessions |-> ReaderInit]

\* AnalyticsEngine.__init__ lines 556-562 (V-PIN)
VpinInit ==
    [current_bucket_vol |-> 0, current_bucket_buy |-> 0,
     current_bucket_sell |-> 0, bucket_history |-> <<>>]

NoCall == [op |-> "none", ret |-> TRUE, misses |-> 0]
NoAlert == [op |-> "none", given |-> Alert("NONE", "low", <<>>),
            returned |-> Alert("NONE", "low", <<>>), before |-> 0]
NoLayering == [avg_l1_vol |-> 0, bids |-> <<>>, asks |-> <<>>, op |-> "none",
               alerts |-> <<>>]
NoTrade == [op |-> "none", vpin |-> 0, completed |-> FALSE, ring |-> <<>>, oi |-> 0]
NoIceberg == [snap |-> S_empty, first |-> 0, seventh |-> 0, fills |-> 0,
              alerted |-> FALSE, fill_count |-> 0, cleared |-> TRUE, alerts |-> 0]

UnitsIdle ==
    /\ aphist = NoCall
    /\ am = AlertManagerInit
    /\ amlast = NoAlert
    /\ lay = NoLayering
    /\ vp = [state |-> VpinInit, last |-> NoTrade]
    /\ ice = NoIceberg

\* UserSession.__init__ for the session whose playback is followed, and
\* its replay loop before its first pass.
\*   rpc : "check" (while session.is_active()), "fetching" (awaiting
\*         conn.fetch), "sleeping" (awaiting asyncio.sleep), "done"
\*   last_ts : the loop's local, the cursor the pending fetch was issued with
\* ingest is history: the timestamps of the rows put on the raw queue
PlayInit ==
    [session_id |-> "A", running |-> TRUE, state |-> "STOPPED", speed |-> 1,
     cursor_ts |-> None, data_buffer |-> <<>>, replay_buffer |-> <<>>,
     raw_snapshot_queue |-> <<>>, processed_snapshot_queue |-> <<>>,
     rpc |-> "check", last_ts |-> None, ingest |-> <<>>, last_activity |-> 0]

\* no go_back yet; ret is what the last go_back returned, rewound the
\* cursor it left behind, for as long as nothing has been ingested since,
\* rewinds the number of go_back calls
NoControl == [ret |-> TRUE, rewound |-> None, rewinds |-> 0]

NoErrors == [websocket_send_failed |-> 0]
NoIngest ==
    [raw_snapshot_queue |-> <<>>, processed_snapshot_queue |-> <<>>,
     queue_full |-> 0, puts |-> 0, gets |-> 0]
NoBuffers ==
    [data_buffer |-> <<>>, session_buffer |-> <<>>,
     processed_snapshot_queue |-> <<>>, processed |-> 0, shared |-> 0,
     appended |-> <<>>, emitted |-> <<>>]
NoHistory == [op |-> "none", limit |-> 0, returned |-> <<>>, logged |-> 0]
NoSpoof == [ticks |-> 0, before |-> 0, hits |-> 0, last_decay |-> 0, gap |-> 0]
NoTwin == [engine |-> EngineInit(0), advanced |-> <<>>, full |-> <<>>,
           raised |-> FALSE, ticks |-> 0]

FlowIdle ==
    /\ play = PlayInit
    /\ ctl = NoControl
    /\ errs = NoErrors
    /\ inq = NoIngest
    /\ bufs = NoBuffers
    /\ hist = NoHistory
    /\ spoof = NoSpoof
    /\ twin = NoTwin

RestIdle == RegimeIdle /\ RouterIdle /\ UnitsIdle /\ FlowIdle

InitEngine ==
    /\ engine = EngineInit(0)
    /\ clock = 0
    /\ calls = 0
    /\ last = NoResult
    /\ ProcIdle
    /\ WorkersIdle
    /\ SessionsIdle
    /\ RestIdle

\* engine.process_snapshot(snap) called dt seconds after the previous call
ProcessSnapshot ==
    \E snap \in EnginePool, dt \in Elapsed :
      \E ms10 \in ProcessingTimes(snap) :
        /\ calls < MaxCalls
        /\ clock + dt <= MaxClock
        /\ LET r == process_snapshot(engine, snap, clock + dt, ms10)
           IN  /\ engine' = r.engine
               /\ last' = [op |-> "process_snapshot", snap |-> snap,
                           outcome |-> r.outcome, anomalies |-> r.anomalies,
                           metrics |-> r.metrics, ofi |-> r.ofi, at |-> clock + dt]
        /\ clock' = clock + dt
        /\ calls' = calls + 1
        /\ UNCHANGED <<procVars, workerVars, sessionVars, restVars>>

NextEngine == ProcessSnapshot

Spec == InitEngine /\ [][NextEngine]_vars

\* ------------------------------------------------------------------------
\* Properties of the engine alone
\* ------------------------------------------------------------------------
\* the snapshot fails validation and still fails after sanitization
ValidationFatal(snap) ==
    /\ ~is_valid(snap)
    /\ ~SanitizeRaises(snap)
    /\ ~is_valid(sanitize_snapshot(snap))

\* C7: when process_snapshot is given a snapshot that fails validation and
\* still fails after sanitization, the result carries exactly one alert, of
\* type DATA_VALIDATION_ERROR and severity critical, carries no metric
\* fields, and the whole engine state (previous book, baselines, rings,
\* detector state, alert manager) is what it was before the call.
C7_ValidationFatalFrame ==
    [][ (calls' = calls + 1 /\ last'.op = "process_snapshot"
         /\ ValidationFatal(last'.snap))
        => /\ last'.outcome = "invalid"
           /\ Len(last'.anomalies) = 1
           /\ last'.anomalies[1].type = "DATA_VALIDATION_ERROR"
           /\ last'.anomalies[1].severity = "critical"
           /\ ~last'.metrics
           /\ engine' = engine ]_vars

\* a fatal snapshot arrives at an engine that has already processed ticks
C7_Witness ==
    /\ last.op = "process_snapshot"
    /\ ValidationFatal(last.snap)
    /\ last.outcome = "invalid"
    /\ engine.n_history > 0
    /\ engine.alert_manager.alert_history # <<>>

\* C8: process_snapshot returns a result with an anomalies list and raises
\* no exception, whatever snapshot it is given and whatever state the engine
\* is in.
C8_NeverRaises ==
    last.op = "process_snapshot" => last.outcome \in {"ok", "invalid"}

\* ------------------------------------------------------------------------
\* SnapshotProcessor (snapshot_processor.py)
\* ------------------------------------------------------------------------
MAX_FAILURES == 5        \* SnapshotProcessor(max_failures=5)

MaxProcCalls == 7        \* calls of process explored per run

\* utils.data.sanitize rewrites datetime and Decimal values and keeps every
\* other value; the results here hold numbers and strings only
sanitize(processed) == processed

\* the returned snapshot of a process_snapshot value
Returned(r) ==
    [outcome |-> r.outcome, anomalies |-> r.anomalies, metrics |-> r.metrics,
     ofi |-> r.ofi]

\* SnapshotProcessor.__init__
ProcInit(cpp_client, analytics_engine) ==
    [engine_mode |-> IF cpp_client THEN "cpp" ELSE "python",
     cpp_client |-> cpp_client,
     analytics_engine |-> analytics_engine]

\* _process_with_python: what process hands back to its caller.
\*   raised   : the call ended in an exception
\*   tag      : engine_used
\*   counter  : updated_failure_count
\*   result   : the processed snapshot
_process_with_python(p, e, snapshot, consecutive_failures, fallback, now) ==
    IF ~p.analytics_engine
    THEN [proc |-> p, engine |-> e, raised |-> TRUE, tag |-> "none",
          counter |-> consecutive_failures, result |-> Returned(Raised(e))]
    ELSE LET r == process_snapshot(e, snapshot, now, 10)
         IN  [proc |-> p, engine |-> r.engine,
              raised |-> r.outcome = "raised",
              tag |-> IF r.outcome = "raised" THEN "none"
                      ELSE IF fallback THEN "python_fallback" ELSE "python",
              counter |-> consecutive_failures,
              result |-> sanitize(Returned(r))]

PrimaryAttempted(p, consecutive_failures) ==
    p.engine_mode = "cpp" /\ p.cpp_client /\ consecutive_failures < MAX_FAILURES

\* the reply of the primary engine, as far as the processor looks at it
CppResult ==
    [outcome |-> "ok", anomalies |-> <<>>, metrics |-> TRUE, ofi |-> 0]

\* SnapshotProcessor.process; primary_ok says whether the primary call (if
\* one is made) returns or raises
process(p, e, snapshot, consecutive_failures, primary_ok, now) ==
    IF PrimaryAttempted(p, consecutive_failures)
    THEN IF primary_ok
         THEN [proc |-> p, engine |-> e, raised |-> FALSE, tag |-> "cpp",
               counter |-> 0, result |-> sanitize(CppResult)]
         ELSE LET c == consecutive_failures + 1
                  p2 == IF c >= MAX_FAILURES
                        THEN [p EXCEPT !.engine_mode = "python"] ELSE p
              IN  _process_with_python(p2, e, snapshot, c, TRUE, now)
    ELSE _process_with_python(p, e, snapshot, consecutive_failures, FALSE, now)

\* set_cpp_client
set_cpp_client(p, client) ==
    [p EXCEPT !.cpp_client = client,
              !.engine_mode = IF client THEN "cpp" ELSE @]

\* ---- the processor driven by a caller that passes the counter back
ProcPool == {S_norm, S_uneven}

InitProc ==
    /\ engine = EngineInit(0)
    /\ clock = 0
    /\ calls = 0
    /\ last = NoResult
    /\ \E cpp_client \in BOOLEAN, analytics_engine \in BOOLEAN :
          proc = ProcInit(cpp_client, analytics_engine)
    /\ cf = 0
    /\ streak = 0
    /\ WorkersIdle
    /\ SessionsIdle
    /\ RestIdle

\* processed, _, engine_used, cf = processor.process(snap, cf); when the call
\* raises the caller is left with the counter it passed
Process ==
    \E snap \in ProcPool, primary_ok \in BOOLEAN :
        /\ calls < MaxProcCalls
        /\ PrimaryAttempted(proc, cf) \/ primary_ok
        /\ \E r \in {process(proc, engine, snap, cf, primary_ok, clock + 1)},
              called \in {PrimaryAttempted(proc, cf)} :
               /\ proc' = r.proc
               /\ engine' = r.engine
               /\ cf' = IF r.raised THEN cf ELSE r.counter
               /\ streak' = IF ~called THEN streak
                            ELSE IF primary_ok THEN 0 ELSE streak + 1
               /\ last' = [op |-> "process", snap |-> snap,
                           outcome |-> IF r.raised THEN "raised" ELSE "returned",
                           anomalies |-> r.result.anomalies,
                           metrics |-> r.result.metrics, ofi |-> r.result.ofi,
                           at |-> clock + 1, tag |-> r.tag, counter |-> r.counter,
                           passed |-> cf, primary_called |-> called,
                           primary_ok |-> called /\ primary_ok,
                           secondary |-> r.result]
        /\ clock' = clock + 1
        /\ calls' = calls + 1
        /\ UNCHANGED <<workerVars, sessionVars, restVars>>

\* processor.set_cpp_client(client): the manual re-enable
SetCppClient ==
    \E client \in BOOLEAN :
        /\ calls < MaxProcCalls
        /\ proc' = set_cpp_client(proc, client)
        /\ last' = [NoResult EXCEPT !.op = "set_cpp_client"]
        /\ calls' = calls + 1
        /\ UNCHANGED <<engine, clock, cf, streak, workerVars, sessionVars, restVars>>

NextProc == Process \/ SetCppClient

SpecProc == InitProc /\ [][NextProc]_vars

\* ------------------------------------------------------------------------
\* Properties of the SnapshotProcessor
\* ------------------------------------------------------------------------
\* C3: with the caller passing the returned counter back, a call of process
\* demotes the mode from cpp to python exactly when its primary call fails
\* and is the MAX_FAILURES-th failure in a row with no success in between,
\* and no call made in python mode invokes the primary client.
C3_DemotionExactlyAtFmax ==
    [][ (calls' = calls + 1 /\ last'.op = "process")
        => /\ (proc.engine_mode = "cpp" /\ proc'.engine_mode = "python")
              <=> (last'.primary_called /\ ~last'.primary_ok
                   /\ streak' >= MAX_FAILURES)
           /\ proc.engine_mode = "python" => ~last'.primary_called ]_vars

\* C4: a call of process whose primary call raises, with a secondary engine
\* configured, returns the snapshot processed by the secondary pipeline,
\* tagged python_fallback, with the counter one above the one passed in; a
\* primary success is tagged cpp with counter 0; a call that does not try
\* the primary is tagged python and returns the counter unchanged.
C4_NoSnapshotLost ==
    [][ (calls' = calls + 1 /\ last'.op = "process")
        => /\ (last'.primary_called /\ ~last'.primary_ok /\ proc.analytics_engine)
              => /\ last'.outcome = "returned"
                 /\ last'.tag = "python_fallback"
                 /\ last'.counter = last'.passed + 1
                 /\ last'.secondary =
                       Returned(process_snapshot(engine, last'.snap, last'.at, 10))
           /\ last'.primary_ok
              => /\ last'.outcome = "returned"
                 /\ last'.tag = "cpp" /\ last'.counter = 0
           /\ (~last'.primary_called /\ last'.outcome = "returned")
              => last'.tag = "python" /\ last'.counter = last'.passed ]_vars

\* ------------------------------------------------------------------------
\* The analytics workers of main.py
\* ------------------------------------------------------------------------
MAX_CPP_FAILURES == 5

MaxWorkerSteps == 3      \* snapshots dequeued per run, all workers together

\* initialize_cpp_engine at startup: the connection test passes or not
initialize_cpp_engine(g, connected) ==
    [g EXCEPT !.engine_mode = IF connected THEN "cpp" ELSE "python",
              !.cpp_client  = connected]

\* should_process with the test "skip_counter > skip_ratio"
should_process_late(ap) ==
    IF ~ap.adaptive_mode THEN <<TRUE, ap>>
    ELSE IF ap.skip_counter + 1 > ap.skip_ratio
         THEN <<TRUE, [ap EXCEPT !.skip_counter = 0]>>
         ELSE <<FALSE, [ap EXCEPT !.skip_counter = @ + 1]>>

\* AdaptiveProcessor.should_process: <<process?, processor afterwards>>
should_process(ap) ==
    IF ~ap.adaptive_mode THEN <<TRUE, ap>>
    ELSE IF ap.skip_counter + 1 >= ap.skip_ratio
         THEN <<TRUE, [ap EXCEPT !.skip_counter = 0]>>
         ELSE <<FALSE, [ap EXCEPT !.skip_counter = @ + 1]>>

\* record_processing_time with skip_ratio = int(avg_time / 50), not capped
record_processing_time_uncapped(ap, ms10) ==
    LET t    == Append(ap.processing_times, ms10)
        pt   == IF Len(t) > 20 THEN Tail(t) ELSE t
        sum5 == SumSeq(SubSeq(pt, Len(pt) - 4, Len(pt)))
        ap2  == [ap EXCEPT !.processing_times = pt]
    IN  IF Len(pt) < 5 THEN ap2
        ELSE IF sum5 > 5000 /\ ~ap.adaptive_mode
             THEN [ap2 EXCEPT !.adaptive_mode = TRUE, !.skip_ratio = sum5 \div 2500]
             ELSE IF sum5 < 3500 /\ ap.adaptive_mode
                  THEN [ap2 EXCEPT !.adaptive_mode = FALSE, !.skip_counter = 0]
                  ELSE ap2

\* AdaptiveProcessor.record_processing_time (times in tenths of a ms)
record_processing_time(ap, ms10) ==
    LET t    == Append(ap.processing_times, ms10)
        pt   == IF Len(t) > 20 THEN Tail(t) ELSE t
        sum5 == SumSeq(SubSeq(pt, Len(pt) - 4, Len(pt)))
        ap2  == [ap EXCEPT !.processing_times = pt]
    IN  IF Len(pt) < 5 THEN ap2
        ELSE IF sum5 > 5000 /\ ~ap.adaptive_mode
             THEN [ap2 EXCEPT !.adaptive_mode = TRUE,
                              !.skip_ratio = Min(3, sum5 \div 2500)]
             ELSE IF sum5 < 3500 /\ ap.adaptive_mode
                  THEN [ap2 EXCEPT !.adaptive_mode = FALSE, !.skip_counter = 0]
                  ELSE ap2

\* "if engine_mode == 'cpp' and cpp_client is not None"
PrimarySelected(g) == g.engine_mode = "cpp" /\ g.cpp_client

\* "processed = engine.process_snapshot(snapshot)": r is the value of
\* process_snapshot, tag the used_engine set next to the call
FromPipeline(r, tag) ==
    [engine |-> r.engine, dropped |-> r.outcome = "raised", tag |-> tag,
     anomalies |-> r.anomalies, metrics |-> r.metrics, ofi |-> r.ofi]

\* the primary call returned and detect_advanced_anomalies gave adv: its
\* alerts are appended to the primary's, or, when it raised, the handler of
\* the try block runs the full pipeline
AfterPostPass(adv, snap, now, ms10) ==
    IF adv.raised
    THEN FromPipeline(process_snapshot(adv.engine, snap, now, ms10),
                      "python_fallback")
    ELSE [engine |-> adv.engine, dropped |-> FALSE,
          tag |-> IF adv.anomalies # <<>> THEN "cpp+python_advanced" ELSE "cpp",
          anomalies |-> CppResult.anomalies \o adv.anomalies,
          metrics |-> CppResult.metrics, ofi |-> CppResult.ofi]

\* The engine part of one worker iteration (the same statements in both
\* workers): primary call, advanced post-pass on success, full Python
\* pipeline otherwise or when anything in the try block raised.
\*   dropped : an exception reached the worker's outer handler
EnginePath(e, snap, now, attempted, primary_ok, ms10) ==
    IF attempted /\ primary_ok
    THEN AfterPostPass(detect_advanced_anomalies(e, snap, now), snap, now, ms10)
    ELSE FromPipeline(process_snapshot(e, snap, now, ms10),
                      IF attempted THEN "python_fallback" ELSE "python")

\* the record a worker puts on its processed queue
Emitted(r, snap, now) ==
    [snap |-> snap, anomalies |-> r.anomalies, tag |-> r.tag, at |-> now,
     metrics |-> r.metrics, ofi |-> r.ofi]

WorkerPool == {S_deep, S_uneven, S_move}

InitWorker ==
    /\ engine = EngineInit(0)
    /\ clock = 0
    /\ calls = 0
    /\ last = NoResult
    /\ ProcIdle
    /\ \E connected \in BOOLEAN :
          glob = initialize_cpp_engine(
                    [engine_mode |-> "unknown", cpp_client |-> FALSE,
                     n_data_buffer |-> 0], connected)
    /\ wfail = [w \in Workers |-> 0]
    /\ adaptive = AdaptiveInit
    /\ out = [w \in Workers |-> <<>>]
    /\ wstreak = [w \in Workers |-> 0]
    /\ soloEngine = EngineInit(0)
    /\ soloOut = <<>>
    /\ SessionsIdle
    /\ RestIdle

\* what one iteration leaves in "last"
Iteration(w, snap, now, outcome, r, called, ok) ==
    [op |-> "worker", worker |-> w, snap |-> snap, outcome |-> outcome,
     anomalies |-> r.anomalies, metrics |-> r.metrics, ofi |-> r.ofi, at |-> now,
     tag |-> r.tag, primary_called |-> called, primary_ok |-> called /\ ok]

\* one iteration of session_analytics_worker(session) for session sid:
\* a snapshot is taken from the session's raw queue and processed
SessionAnalyticsWorker(sid) ==
    \E snap \in WorkerPool, primary_ok \in BOOLEAN :
        \E now \in {clock + 1}, called \in {PrimarySelected(glob)} :
          /\ calls < MaxWorkerSteps
          /\ called \/ primary_ok
          /\ \E r \in {EnginePath(engine, snap, now, called, primary_ok, 10)},
                solo \in {EnginePath(soloEngine, snap, now, called, primary_ok, 10)} :
            /\ engine' = r.engine
            /\ wfail' = IF called /\ primary_ok THEN [wfail EXCEPT ![sid] = 0]
                        ELSE wfail
            /\ wstreak' = IF ~called THEN wstreak
                          ELSE [wstreak EXCEPT
                                  ![sid] = IF primary_ok THEN 0 ELSE @ + 1]
            /\ out' = IF r.dropped THEN out
                      ELSE [out EXCEPT ![sid] = Append(@, Emitted(r, snap, now))]
            /\ glob' = IF r.dropped THEN glob
                       ELSE [glob EXCEPT !.n_data_buffer = @ + 1]
            /\ soloEngine' = IF sid = "A" THEN solo.engine ELSE soloEngine
            /\ soloOut' = IF sid = "A" /\ ~solo.dropped
                          THEN Append(soloOut, Emitted(solo, snap, now))
                          ELSE soloOut
            /\ last' = Iteration(sid, snap, now,
                                 IF r.dropped THEN "dropped" ELSE "emitted",
                                 r, called, primary_ok)
          /\ clock' = now
          /\ calls' = calls + 1
          /\ UNCHANGED <<procVars, adaptive, sessionVars, restVars>>

\* how the primary call of the global worker ends: it returns, it raises
\* grpc.RpcError / ConnectionError / TimeoutError (two handlers with the same
\* statements), or it raises anything else
PrimaryEnds == {"ok", "transport", "other"}

\* one iteration of analytics_worker(): a snapshot is taken from the global
\* raw queue; ms10 is the processing time the iteration measures
AnalyticsWorker ==
    \E snap \in WorkerPool, ends \in PrimaryEnds, ms10 \in {10, 1203} :
        \E now \in {clock + 1}, sp \in {should_process(adaptive)},
           called \in {PrimarySelected(glob)}, fails \in {wfail["G"] + 1} :
        \E demote \in {called /\ ends = "transport" /\ fails >= MAX_CPP_FAILURES},
           r \in {EnginePath(engine, snap, now, called, ends = "ok", ms10)} :
            /\ calls < MaxWorkerSteps
            /\ called \/ ends = "ok"
            /\ clock' = now
            /\ calls' = calls + 1
            /\ UNCHANGED <<procVars, soloEngine, soloOut, sessionVars, restVars>>
            /\ IF ~sp[1]
               THEN /\ adaptive' = sp[2]
                    /\ last' = [Iteration("G", snap, now, "skipped",
                                          Returned(Raised(engine)) @@ [tag |-> "none"],
                                          FALSE, FALSE)
                                EXCEPT !.primary_called = FALSE]
                    /\ UNCHANGED <<engine, glob, wfail, wstreak, out>>
               ELSE /\ engine' = r.engine
                    /\ wfail' = IF ~called THEN wfail
                                ELSE IF ends = "ok" THEN [wfail EXCEPT !["G"] = 0]
                                ELSE IF ends = "transport"
                                     THEN [wfail EXCEPT !["G"] = fails]
                                     ELSE wfail
                    /\ wstreak' = IF ~called THEN wstreak
                                  ELSE [wstreak EXCEPT
                                          !["G"] = IF ends = "ok" THEN 0 ELSE @ + 1]
                    /\ glob' = IF demote
                               THEN [glob EXCEPT !.engine_mode = "python",
                                                 !.cpp_client = FALSE]
                               ELSE glob
                    /\ adaptive' = IF r.dropped THEN sp[2]
                                   ELSE record_processing_time(sp[2], ms10)
                    /\ out' = IF r.dropped THEN out
                              ELSE [out EXCEPT !["G"] = Append(@, Emitted(r, snap, now))]
                    /\ last' = Iteration("G", snap, now,
                                         IF r.dropped THEN "dropped" ELSE "emitted",
                                         r, called, ends = "ok")

NextWorker ==
    \/ \E sid \in Sessions : SessionAnalyticsWorker(sid)
    \/ AnalyticsWorker

SpecWorker == InitWorker /\ [][NextWorker]_vars

\* ------------------------------------------------------------------------
\* Properties of the analytics workers
\* ------------------------------------------------------------------------
SameAlert(a, b) == a.type = b.type /\ a.msg = b.msg

\* C1: in the stream a session's worker emits, no two alerts with the same
\* (type, message) are emitted less than DEDUP_WINDOW seconds apart, whether
\* in two snapshots or inside one, whichever engine path produced them.
C1_NoDuplicateWithinWindow ==
    \A sid \in Sessions :
      \A i, j \in DOMAIN out[sid] :
        \A k \in DOMAIN out[sid][i].anomalies, l \in DOMAIN out[sid][j].anomalies :
          ((i < j \/ (i = j /\ k < l))
           /\ SameAlert(out[sid][i].anomalies[k], out[sid][j].anomalies[l]))
          => out[sid][j].at - out[sid][i].at >= DEDUP_WINDOW

\* C5: in both workers every failed primary call increments the worker's
\* consecutive-failure counter, and once MAX_CPP_FAILURES primary calls in a
\* row have failed the primary is no longer selected.
C5_EveryFailureCounts ==
    [][ (calls' = calls + 1 /\ last'.op = "worker")
        => /\ (last'.primary_called /\ ~last'.primary_ok)
              => wfail'[last'.worker] = wfail[last'.worker] + 1
           /\ wstreak'[last'.worker] >= MAX_CPP_FAILURES
              => ~PrimarySelected(glob') ]_vars

\* C6: an iteration that emits an enriched snapshot has advanced the
\* per-tick engine state by exactly one tick (remembered L1, both EWMA
\* baselines, the price and feature rings, the detector rings), whichever
\* path handled the snapshot; an iteration that skips leaves the engine as
\* it was.
C6_OneTickPerSnapshot ==
    [][ (calls' = calls + 1 /\ last'.op = "worker")
        => /\ last'.outcome = "emitted"
              => /\ engine'.prev_best_bid = last'.snap.bids[1][1]
                 /\ engine'.avg_spread = HistoryBlock(engine, last'.snap).avg_spread
                 /\ engine'.avg_l1_vol = L1VolBlock(engine, last'.snap).avg_l1_vol
                 /\ engine'.n_history = Bump(engine.n_history, HISTORY_WINDOW)
                 /\ engine'.n_feature_history = Bump(engine.n_feature_history, 600)
                 /\ Len(engine'.price_momentum) =
                       Min(Len(engine.price_momentum) + 1, 20)
                 /\ Len(engine'.order_event_timestamps) =
                       Min(Len(engine.order_event_timestamps) + 1, 100)
           /\ last'.outcome = "skipped" => engine' = engine ]_vars

\* C9: what session "A" emits is what it would emit if it were the only
\* session: the same snapshots, through the same engine paths at the same
\* times, on an engine no other worker touches.
C9_SessionIsolation == out["A"] = soloOut

\* ------------------------------------------------------------------------
\* Sessions: SessionManager and UserSession (session_replay.py), the
\* WebSocket endpoint, the per-session worker thread, replay loop and
\* broadcast loop, and the ConnectionManager (main.py).  Snapshots are
\* numbered in the order the replay loop puts them on the session's raw
\* queue; what the engine does with one is seen only as "an enriched
\* snapshot comes back" or "an exception reached the worker's handler".
\* ------------------------------------------------------------------------
MaxObjects == 2          \* UserSession objects created per run
MaxPuts == 2             \* snapshots the replay loops put per run

\* session ids the clients connect with
ConnectIds == {"A"}

\* a queue that hands out its newest item first (what queue.Queue is not)
QueueGetLast(q) == <<q[Len(q)], SubSeq(q, 1, Len(q) - 1)>>

\* queue.Queue.get / get_nowait: <<item, queue afterwards>>
QueueGet(q) == <<Head(q), Tail(q)>>

\* UserSession.__init__, and where its worker thread and its two tasks stand
\* right after websocket_endpoint started them.
\*   wpc : worker      "check" (while session.is_active()), "waiting" (in
\*                     raw_snapshot_queue.get(timeout=1.0)), "busy", "done"
\*   rpc : replay loop "run", "done"
\*   bpc : broadcaster "check" (outer while), "sending" (awaiting
\*                     send_to_session inside the inner loop), "done"
\*   btarget : the websocket send_to_session found under the session id
\* ingest, appended, sent are history: what was put on the raw queue, what
\* was appended to data_buffer, what send_to_session delivered.
NewSession(sid) ==
    [session_id |-> sid, running |-> TRUE, state |-> "STOPPED",
     speed |-> 1, cursor_ts |-> None,
     data_buffer |-> <<>>, replay_buffer |-> <<>>, raw_snapshot_queue |-> <<>>,
     processed_snapshot_queue |-> <<>>,
     wpc |-> "check", wheld |-> 0, rpc |-> "run", bpc |-> "check", bheld |-> 0,
     btarget |-> "none",
     ingest |-> <<>>, appended |-> <<>>, sent |-> <<>>,
     last_activity |-> clock]

\* The methods below are evaluated at the time of the call: "clock" is
\* datetime.now().
\* UserSession.stop
stop(o) ==
    [o EXCEPT !.state = "STOPPED", !.cursor_ts = None, !.data_buffer = <<>>,
              !.replay_buffer = <<>>, !.last_activity = clock]

\* a shutdown that only clears the _running flag
shutdown_flag_only(o) == [o EXCEPT !.running = FALSE]

\* UserSession.shutdown
shutdown(o) == stop([o EXCEPT !.running = FALSE])

\* UserSession.start
start(o) == [o EXCEPT !.state = "PLAYING", !.last_activity = clock]

\* a pause that does not look at the state
pause_always(o) == [o EXCEPT !.state = "PAUSED", !.last_activity = clock]

\* UserSession.pause
pause(o) ==
    IF o.state = "PLAYING"
    THEN [o EXCEPT !.state = "PAUSED", !.last_activity = clock] ELSE o

\* UserSession.resume
resume(o) ==
    IF o.state = "PAUSED"
    THEN [o EXCEPT !.state = "PLAYING", !.last_activity = clock] ELSE o

SPEED_MAX == 10          \* max(1, min(speed, 10))

\* int(speed): <<raised, value>>.  An int is itself, a float (given in
\* tenths) is truncated towards zero, a string is parsed when it spells an
\* integer (ValueError otherwise), None is a TypeError.
PyInt(v) ==
    IF v.kind = "int" THEN <<FALSE, v.value>>
    ELSE IF v.kind = "float"
         THEN <<FALSE, IF v.value >= 0 THEN v.value \div 10
                       ELSE 0 - ((0 - v.value) \div 10)>>
    ELSE IF v.kind = "str" /\ v.value # None THEN <<FALSE, v.value>>
    ELSE <<TRUE, 0>>

\* UserSession.set_speed
set_speed(o, v) ==
    [o EXCEPT !.speed = Max(1, Min(IF PyInt(v)[1] THEN 1 ELSE PyInt(v)[2], SPEED_MAX)),
              !.last_activity = clock]

\* a rewind that leaves the outbound data buffer alone
go_back_keeps_data(o, seconds) ==
    IF o.cursor_ts # None
    THEN <<[o EXCEPT !.cursor_ts = @ - seconds, !.replay_buffer = <<>>,
                     !.last_activity = clock], TRUE>>
    ELSE <<o, FALSE>>

\* UserSession.go_back: <<session afterwards, returned value>>
go_back(o, seconds) ==
    IF o.cursor_ts # None
    THEN <<[o EXCEPT !.cursor_ts = @ - seconds, !.replay_buffer = <<>>,
                     !.data_buffer = <<>>, !.last_activity = clock], TRUE>>
    ELSE <<o, FALSE>>

\* a session that stays active whatever its _running flag says
is_active_always(o) == TRUE

IDLE_LIMIT == 1800       \* timedelta(minutes=30), in seconds

\* UserSession.is_active
is_active(o) == o.running /\ clock - o.last_activity < IDLE_LIMIT

InitSession ==
    /\ engine = EngineInit(0)
    /\ clock = 0
    /\ calls = 0
    /\ last = NoResult
    /\ ProcIdle
    /\ WorkersIdle
    /\ SessionsIdle
    /\ RestIdle

\* websocket_endpoint up to its first suspension (websocket.accept inside
\* manager.connect): get_session, and when there is none create_session and
\* the start of the worker thread, the replay task and the broadcast task.
\* Neither get_session nor the uncontended lock of create_session suspends.
WebsocketEndpoint ==
    \E w \in WebSockets, sid \in ConnectIds :
        /\ ws[w].st = "new"
        /\ IF registry[sid] = 0
           THEN /\ Len(objs) < MaxObjects
                /\ objs' = Append(objs, NewSession(sid))
                /\ registry' = [registry EXCEPT ![sid] = Len(objs) + 1]
           ELSE UNCHANGED <<objs, registry>>
        /\ ws' = [ws EXCEPT ![w] = [@ EXCEPT !.st = "accepting", !.sid = sid,
                                              !.obj = registry'[sid]]]
        /\ UNCHANGED <<conns, engineVars, procVars, workerVars, restVars>>

\* a history that goes out looking like one snapshot of the stream
HistoryAsSnapshot(data) == [type |-> "snapshot", data |-> data]

\* the two kinds of message a client gets
HistoryMessage(data) == [type |-> "history", data |-> data]
SnapshotMessage(n) == [type |-> "snapshot", data |-> <<n>>]

\* the rest of manager.connect, and the history message that follows
\* without a suspension in between: websocket.send_json is called with
\* list(session.data_buffer) of the session the endpoint holds
ManagerConnect ==
    \E w \in WebSockets :
        /\ ws[w].st = "accepting"
        /\ conns' = [conns EXCEPT ![ws[w].sid] = w]
        /\ ws' = [ws EXCEPT ![w] =
                    [@ EXCEPT !.st = "open",
                              !.got = Append(@, HistoryMessage(objs[ws[w].obj].data_buffer))]]
        /\ UNCHANGED <<registry, objs, engineVars, procVars, workerVars, restVars>>

\* WebSocketDisconnect -> manager.disconnect(websocket)
Disconnect ==
    \E w \in WebSockets :
        /\ ws[w].st = "open"
        /\ conns' = [conns EXCEPT ![ws[w].sid] = "none"]
        /\ ws' = [ws EXCEPT ![w] = [@ EXCEPT !.st = "closed"]]
        /\ UNCHANGED <<registry, objs, engineVars, procVars, workerVars, restVars>>

\* DELETE /sessions/{session_id} -> SessionManager.delete_session
DeleteSession ==
    \E sid \in ConnectIds :
        /\ registry[sid] # 0
        /\ objs' = [objs EXCEPT ![registry[sid]] = shutdown(@)]
        /\ registry' = [registry EXCEPT ![sid] = 0]
        /\ UNCHANGED <<conns, ws, engineVars, procVars, workerVars, restVars>>

\* POST /replay/{session_id}/start
StartReplay ==
    \E sid \in ConnectIds :
        /\ registry[sid] # 0
        /\ objs[registry[sid]].state # "PLAYING"
        /\ objs' = [objs EXCEPT ![registry[sid]] = start(@)]
        /\ UNCHANGED <<registry, conns, ws, engineVars, procVars, workerVars, restVars>>

\* snapshots put on raw queues so far; they are numbered in that order
TotalPuts == SumSeq([k \in 1..Len(objs) |-> Len(objs[k].ingest)])

\* session_replay_loop, one pass of its while loop: it ends when the session
\* is no longer active, idles unless PLAYING, otherwise puts the next
\* snapshot on the raw queue
SessionReplayLoop ==
    \E k \in DOMAIN objs :
        LET o == objs[k]
        IN  /\ o.rpc = "run"
            /\ IF ~is_active(o)
               THEN objs' = [objs EXCEPT ![k] = [o EXCEPT !.rpc = "done"]]
               ELSE /\ o.state = "PLAYING"
                    /\ TotalPuts < MaxPuts
                    /\ LET n == TotalPuts + 1
                       IN  objs' = [objs EXCEPT ![k] =
                              [o EXCEPT !.raw_snapshot_queue = Append(@, n),
                                        !.ingest = Append(@, n)]]
            /\ UNCHANGED <<registry, conns, ws, engineVars, procVars, workerVars, restVars>>

\* session_analytics_worker: "while session.is_active()"
WorkerCheck ==
    \E k \in DOMAIN objs :
        /\ objs[k].wpc = "check"
        /\ objs' = [objs EXCEPT ![k] =
                      [@ EXCEPT !.wpc = IF is_active(objs[k]) THEN "waiting"
                                        ELSE "done"]]
        /\ UNCHANGED <<registry, conns, ws, engineVars, procVars, workerVars, restVars>>

\* raw_snapshot_queue.get(timeout=1.0) returns a snapshot
WorkerGet ==
    \E k \in DOMAIN objs :
        LET o == objs[k]
        IN  /\ o.wpc = "waiting"
            /\ o.raw_snapshot_queue # <<>>
            /\ LET g == QueueGet(o.raw_snapshot_queue)
               IN  objs' = [objs EXCEPT ![k] =
                              [o EXCEPT !.wpc = "busy", !.wheld = g[1],
                                        !.raw_snapshot_queue = g[2]]]
            /\ UNCHANGED <<registry, conns, ws, engineVars, procVars, workerVars, restVars>>

\* ... or times out with queue.Empty
WorkerTimeout ==
    \E k \in DOMAIN objs :
        /\ objs[k].wpc = "waiting"
        /\ objs[k].raw_snapshot_queue = <<>>
        /\ objs' = [objs EXCEPT ![k] = [@ EXCEPT !.wpc = "check"]]
        /\ UNCHANGED <<registry, conns, ws, engineVars, procVars, workerVars, restVars>>

\* the snapshot is processed: the enriched snapshot is put on the processed
\* queue, or an exception reached the outer handler and nothing is put
WorkerPut ==
    \E k \in DOMAIN objs, enriched \in BOOLEAN :
        LET o == objs[k]
        IN  /\ o.wpc = "busy"
            /\ objs' = [objs EXCEPT ![k] =
                          [o EXCEPT !.wpc = "check", !.wheld = 0,
                                    !.processed_snapshot_queue =
                                        IF enriched THEN Append(@, o.wheld) ELSE @]]
            /\ UNCHANGED <<registry, conns, ws, engineVars, procVars, workerVars, restVars>>

\* the broadcaster takes the next processed snapshot and appends it to
\* data_buffer (deque(maxlen=100)); send_to_session looks the websocket up
\* under the session id and awaits its send_json
TakeNext(o) ==
    LET g == QueueGet(o.processed_snapshot_queue)
    IN  [o EXCEPT !.processed_snapshot_queue = g[2],
                  !.bheld = g[1],
                  !.btarget = conns[o.session_id],
                  !.data_buffer = RingAppend(@, g[1], 100),
                  !.appended = Append(@, g[1]),
                  !.bpc = "sending"]

\* session_broadcast_loop: "while session.is_active()" and the entry into
\* the inner loop; with nothing queued it sleeps and comes back here
BroadcastCheck ==
    \E k \in DOMAIN objs :
        LET o == objs[k]
        IN  /\ o.bpc = "check"
            /\ IF ~is_active(o)
               THEN objs' = [objs EXCEPT ![k] = [o EXCEPT !.bpc = "done"]]
               ELSE /\ o.processed_snapshot_queue # <<>>
                    /\ objs' = [objs EXCEPT ![k] = TakeNext(o)]
            /\ UNCHANGED <<registry, conns, ws, engineVars, procVars, workerVars, restVars>>

\* MetricsCollector.record_error counting every call twice
record_error_twice(m, error_type) == [m EXCEPT ![error_type] = @ + 2]

\* MetricsCollector.record_error (error_counts)
record_error(m, error_type) == [m EXCEPT ![error_type] = @ + 1]

\* manager.send_to_session(session.session_id, processed) completes: the
\* websocket it found gets the message unless there was none or send_json
\* raised, which is counted; then "while not processed_snapshot_queue.empty()"
BroadcastSend ==
    \E k \in DOMAIN objs, delivered \in BOOLEAN :
        LET o  == objs[k]
            ok == delivered /\ o.btarget # "none" /\ ws[o.btarget].st = "open"
            o2 == [o EXCEPT !.bheld = 0, !.bpc = "check", !.btarget = "none",
                            !.sent = IF ok THEN Append(@, o.bheld) ELSE @]
        IN  /\ o.bpc = "sending"
            /\ ok \/ ~delivered
            /\ objs' = [objs EXCEPT ![k] =
                          IF o2.processed_snapshot_queue # <<>>
                          THEN TakeNext(o2) ELSE o2]
            /\ errs' = IF o.btarget # "none" /\ ~delivered
                       THEN record_error(errs, "websocket_send_failed") ELSE errs
            /\ ws' = IF ok
                     THEN [ws EXCEPT ![o.btarget].got = Append(@, SnapshotMessage(o.bheld))]
                     ELSE ws
            /\ UNCHANGED <<registry, conns, engineVars, procVars, workerVars,
                           regimeVars, routerVars, unitVars, play, ctl, inq, bufs, hist,
                           probeVars>>

NextSession ==
    \/ WebsocketEndpoint
    \/ ManagerConnect
    \/ Disconnect
    \/ DeleteSession
    \/ StartReplay
    \/ SessionReplayLoop
    \/ WorkerCheck
    \/ WorkerGet
    \/ WorkerTimeout
    \/ WorkerPut
    \/ BroadcastCheck
    \/ BroadcastSend

SpecSession == InitSession /\ [][NextSession]_vars

\* ------------------------------------------------------------------------
\* Properties of the sessions
\* ------------------------------------------------------------------------
\* a is b with some elements left out
RECURSIVE IsSubseq(_, _)
IsSubseq(a, b) ==
    IF a = <<>> THEN TRUE
    ELSE IF b = <<>> THEN FALSE
    ELSE IF Head(a) = Head(b) THEN IsSubseq(Tail(a), Tail(b))
    ELSE IsSubseq(a, Tail(b))

\* C2: for every UserSession, the snapshots appended to its data_buffer, and
\* the snapshots sent to its client, are a subsequence of the snapshots put
\* on its raw queue: some may be left out, none is reordered or emitted
\* twice.
C2_OutputIsSubsequenceOfIngest ==
    \A k \in DOMAIN objs :
        /\ IsSubseq(objs[k].appended, objs[k].ingest)
        /\ IsSubseq(objs[k].sent, objs[k].appended)

\* two snapshots went in, both were appended in order, and the first one did
\* not reach the client
C2_Witness ==
    \E k \in DOMAIN objs :
        /\ Len(objs[k].ingest) = 2
        /\ objs[k].appended = objs[k].ingest
        /\ objs[k].sent = <<objs[k].ingest[2]>>

\* the UserSession objects of an id whose worker thread, replay task and
\* broadcast task have not returned
WorkersOf(sid) ==
    {k \in DOMAIN objs : objs[k].session_id = sid /\ objs[k].wpc # "done"}
ReplayLoopsOf(sid) ==
    {k \in DOMAIN objs : objs[k].session_id = sid /\ objs[k].rpc # "done"}
BroadcastersOf(sid) ==
    {k \in DOMAIN objs : objs[k].session_id = sid /\ objs[k].bpc # "done"}

\* C10: for each session id at most one analytics worker, one replay loop
\* and one broadcaster are running at any time.
C10_AtMostOnePerSessionId ==
    \A sid \in ConnectIds :
        /\ Cardinality(WorkersOf(sid)) <= 1
        /\ Cardinality(ReplayLoopsOf(sid)) <= 1
        /\ Cardinality(BroadcastersOf(sid)) <= 1

\* ------------------------------------------------------------------------
\* Regime model: background K-means training (analytics_core.py 797-823)
\* and the clustering section of process_snapshot (1027-1058).  The callers
\* are the session worker threads, which share the module-level engine; a
\* step is one statement, executed with whatever the other threads have
\* written so far.
\* ------------------------------------------------------------------------
FEATURE_MIN == 50         \* "if len(self.feature_history) > 50"
RETRAIN_SECONDS == 10     \* "(now - last_train_time).seconds > 10"

MaxRuns == 2              \* training threads started per run of SpecRegime
MaxFeatures == 52         \* len(feature_history) is followed up to here
MaxRegimeClock == 12      \* the wall clock stops advancing at this second

\* seconds between two calls of process_snapshot
RegimeElapsed == {0, 11}

regimeOthers ==
    <<engine, calls, last, procVars, workerVars, sessionVars, routerVars, unitVars, flowVars>>

N_CLUSTERS == 4           \* KMeans(n_clusters=4, ...)

\* the clusters predict can return
Clusters == 0 .. (N_CLUSTERS - 1)

\* the cluster map published by training run m: the clusters ranked by
\* stress score, a permutation of the clusters that differs from run to
\* run; 0 names the empty dict of the constructor
ClusterMapOf(m) ==
    IF m = 0 THEN <<>>
    ELSE [i \in 1..N_CLUSTERS |-> ((i - 1) + m) % N_CLUSTERS]

\* self.cluster_map.get(raw_cluster, 0)
ClusterMapGet(m, raw) ==
    IF raw + 1 \in DOMAIN ClusterMapOf(m) THEN ClusterMapOf(m)[raw + 1] ELSE 0

\* the clustering section entered from 50 vectors on
RingLongEnoughAtFifty(n) == n >= FEATURE_MIN

\* line 1031: "if len(self.feature_history) > 50"
RingLongEnough(n) == n > FEATURE_MIN

\* a "with" block entered without looking at the lock
LockIgnored(rg) == TRUE

\* "with self.training_lock:" can be entered
LockAvailable(rg) == rg.training_lock = "free"

\* lines 1033-1034
ShouldRetrain(rg, now) ==
    ~rg.is_fitted \/ now - rg.last_train_time > RETRAIN_SECONDS

\* line 1037
MayStartTraining(rg, should_retrain) ==
    should_retrain /\ ~rg.training_in_progress /\ ~rg.pending_training

\* a training thread that has been started and has not returned
InFlight(run) == run.pc # "done"

\* lines 1027-1034: the feature vector is appended; with more than 50 of
\* them should_retrain is computed, otherwise the regime is 0
EnterClustering(c) ==
    \E dt \in RegimeElapsed :
        /\ callers[c].pc = "idle"
        /\ clock + dt <= MaxRegimeClock
        /\ clock' = clock + dt
        /\ regime' = [regime EXCEPT !.n_feature_history = Min(@ + 1, MaxFeatures)]
        /\ callers' = IF RingLongEnough(regime'.n_feature_history)
                      THEN [callers EXCEPT
                              ![c].pc = "test",
                              ![c].should_retrain = ShouldRetrain(regime, clock + dt),
                              ![c].pred = <<>>,
                              ![c].regime = 0]
                      ELSE [callers EXCEPT ![c].pred = <<>>, ![c].regime = 0]
        /\ UNCHANGED <<runs, regimeOthers>>

\* line 1037: the test of the two flags
TestFlags(c) ==
    /\ callers[c].pc = "test"
    /\ callers' = [callers EXCEPT
                     ![c].pc = IF MayStartTraining(regime, callers[c].should_retrain)
                               THEN "set" ELSE "fitted",
                     ![c].should_retrain = FALSE]
    /\ UNCHANGED <<regime, runs, clock, regimeOthers>>

\* line 1038
SetPending(c) ==
    /\ callers[c].pc = "set"
    /\ regime' = [regime EXCEPT !.pending_training = TRUE]
    /\ callers' = [callers EXCEPT ![c].pc = "start"]
    /\ UNCHANGED <<runs, clock, regimeOthers>>

\* lines 1039-1045: the data is copied and the thread started
StartTraining(c) ==
    /\ callers[c].pc = "start"
    /\ Len(runs) < MaxRuns
    /\ runs' = Append(runs, [pc |-> "begin", raised |-> FALSE])
    /\ callers' = [callers EXCEPT ![c].pc = "fitted"]
    /\ UNCHANGED <<regime, clock, regimeOthers>>

\* line 1048: "if self.is_fitted", read outside the lock
CheckFitted(c) ==
    /\ callers[c].pc = "fitted"
    /\ callers' = [callers EXCEPT ![c].pc = IF regime.is_fitted THEN "lock" ELSE "idle"]
    /\ UNCHANGED <<regime, runs, clock, regimeOthers>>

\* line 1049
AcquireForPredict(c) ==
    /\ callers[c].pc = "lock"
    /\ LockAvailable(regime)
    /\ regime' = [regime EXCEPT !.training_lock = c]
    /\ callers' = [callers EXCEPT ![c].pc = "predict"]
    /\ UNCHANGED <<runs, clock, regimeOthers>>

\* line 1051: self.kmeans.predict; when it raises the handler at 1053-1055
\* sets regime 0 and the lock is released
Predict(c) ==
    \E ok \in BOOLEAN :
        /\ callers[c].pc = "predict"
        /\ callers' = [callers EXCEPT
                         ![c].pc = IF ok THEN "map" ELSE "idle",
                         ![c].raw_cluster = IF ok THEN regime.kmeans ELSE 0,
                         ![c].regime = 0]
        /\ regime' = IF ok THEN regime ELSE [regime EXCEPT !.training_lock = "free"]
        /\ UNCHANGED <<runs, clock, regimeOthers>>

\* line 1052: self.cluster_map.get(raw_cluster, 0), then the lock is released
MapCluster(c) ==
    \E raw \in Clusters :
        /\ callers[c].pc = "map"
        /\ callers' = [callers EXCEPT
                         ![c].pc = "idle",
                         ![c].raw_cluster = 0,
                         ![c].pred = <<callers[c].raw_cluster, regime.cluster_map>>,
                         ![c].regime = ClusterMapGet(regime.cluster_map, raw)]
        /\ regime' = [regime EXCEPT !.training_lock = "free"]
        /\ UNCHANGED <<runs, clock, regimeOthers>>

\* ---- _train_kmeans_background, run r
\* the same thread with the two flags cleared after the try statement
\* instead of in its finally clause: a run that raises returns at once
TrainBeginNoFinally(r) ==
    \E ok \in BOOLEAN :
        /\ runs[r].pc = "begin"
        /\ regime' = [regime EXCEPT !.training_in_progress = TRUE]
        /\ runs' = [runs EXCEPT ![r].pc = IF ok THEN "lock" ELSE "done",
                                ![r].raised = ~ok]
        /\ UNCHANGED <<callers, clock, regimeOthers>>

\* lines 800-810: the flag is set, then the fit and the cluster map are
\* computed on the thread's own data; either may raise, and the handler at
\* 819-820 only prints
TrainBegin(r) ==
    \E ok \in BOOLEAN :
        /\ runs[r].pc = "begin"
        /\ regime' = [regime EXCEPT !.training_in_progress = TRUE]
        /\ runs' = [runs EXCEPT ![r].pc = IF ok THEN "lock" ELSE "finally",
                                ![r].raised = ~ok]
        /\ UNCHANGED <<callers, clock, regimeOthers>>

\* line 813
AcquireForPublish(r) ==
    /\ runs[r].pc = "lock"
    /\ LockAvailable(regime)
    /\ regime' = [regime EXCEPT !.training_lock = "run"]
    /\ runs' = [runs EXCEPT ![r].pc = "kmeans"]
    /\ UNCHANGED <<callers, clock, regimeOthers>>

\* line 814
PublishKmeans(r) ==
    /\ runs[r].pc = "kmeans"
    /\ regime' = [regime EXCEPT !.kmeans = r]
    /\ runs' = [runs EXCEPT ![r].pc = "cluster_map"]
    /\ UNCHANGED <<callers, clock, regimeOthers>>

\* line 815
PublishClusterMap(r) ==
    /\ runs[r].pc = "cluster_map"
    /\ regime' = [regime EXCEPT !.cluster_map = r]
    /\ runs' = [runs EXCEPT ![r].pc = "is_fitted"]
    /\ UNCHANGED <<callers, clock, regimeOthers>>

\* lines 816-817, and the lock is released
PublishFitted(r) ==
    /\ runs[r].pc = "is_fitted"
    /\ regime' = [regime EXCEPT !.is_fitted = TRUE, !.last_train_time = clock,
                                !.training_lock = "free"]
    /\ runs' = [runs EXCEPT ![r].pc = "finally"]
    /\ UNCHANGED <<callers, clock, regimeOthers>>

\* line 822
ClearInProgress(r) ==
    /\ runs[r].pc = "finally"
    /\ regime' = [regime EXCEPT !.training_in_progress = FALSE]
    /\ runs' = [runs EXCEPT ![r].pc = "pending"]
    /\ UNCHANGED <<callers, clock, regimeOthers>>

\* line 823, and the thread ends
ClearPending(r) ==
    /\ runs[r].pc = "pending"
    /\ regime' = [regime EXCEPT !.pending_training = FALSE]
    /\ runs' = [runs EXCEPT ![r].pc = "done"]
    /\ UNCHANGED <<callers, clock, regimeOthers>>

InitRegime == InitEngine

NextRegime ==
    \/ \E c \in Sessions : EnterClustering(c)
    \/ \E c \in Sessions : TestFlags(c)
    \/ \E c \in Sessions : SetPending(c)
    \/ \E c \in Sessions : StartTraining(c)
    \/ \E c \in Sessions : CheckFitted(c)
    \/ \E c \in Sessions : AcquireForPredict(c)
    \/ \E c \in Sessions : Predict(c)
    \/ \E c \in Sessions : MapCluster(c)
    \/ \E r \in DOMAIN runs : TrainBegin(r)
    \/ \E r \in DOMAIN runs : AcquireForPublish(r)
    \/ \E r \in DOMAIN runs : PublishKmeans(r)
    \/ \E r \in DOMAIN runs : PublishClusterMap(r)
    \/ \E r \in DOMAIN runs : PublishFitted(r)
    \/ \E r \in DOMAIN runs : ClearInProgress(r)
    \/ \E r \in DOMAIN runs : ClearPending(r)

SpecRegime == InitRegime /\ [][NextRegime]_vars

\* ------------------------------------------------------------------------
\* Properties of the regime model
\* ------------------------------------------------------------------------
RunsInFlight == {r \in DOMAIN runs : InFlight(runs[r])}

\* C11: at most one background K-means training thread of the engine is in
\* flight (started and not yet returned) at any time, whatever the
\* interleaving of the process_snapshot calls of the workers sharing the
\* engine with the start and the completion of training.
C11_SingleFlightTraining == Cardinality(RunsInFlight) <= 1

\* C12: every regime prediction uses a kmeans and a cluster_map of the same
\* training run: a process_snapshot running while a training publishes sees
\* the old pair or the new pair, never one of each.
C12_PredictionUsesOnePair ==
    \A c \in Sessions :
        callers[c].pred # <<>> => callers[c].pred[1] = callers[c].pred[2]

\* a caller has predicted with the pair of run 1 and the other caller waits
\* for the lock while run 2 has published its kmeans and not yet its map
C12_Witness ==
    \E c, d \in Sessions :
        /\ c # d
        /\ callers[c].pred = <<1, 1>>
        /\ callers[d].pc = "lock"
        /\ Len(runs) = 2 /\ runs[2].pc = "cluster_map"
        /\ regime.kmeans = 2 /\ regime.cluster_map = 1

PublishedModel(rg) == <<rg.kmeans, rg.cluster_map, rg.is_fitted>>

\* C13: a step of a training run that has raised leaves the published model
\* (kmeans, cluster_map, is_fitted) as it was; when a run returns, on either
\* exit path, pending_training is false and training_in_progress is false
\* unless another run in flight has set it; and whenever no run is in flight
\* and no caller stands between setting pending_training and starting its
\* thread, both flags are false, so the next tick that wants a training
\* starts one.
C13_FailedRunKeepsModelClearsFlags ==
    [][ /\ \A r \in DOMAIN runs :
             /\ (runs'[r] # runs[r] /\ runs'[r].raised)
                   => PublishedModel(regime') = PublishedModel(regime)
             /\ (InFlight(runs[r]) /\ ~InFlight(runs'[r]))
                   => /\ ~regime'.pending_training
                      /\ regime'.training_in_progress
                            => \E q \in DOMAIN runs' : q # r /\ InFlight(runs'[q])
        /\ (RunsInFlight = {} /\ \A c \in Sessions : callers[c].pc # "start")
              => ~regime.training_in_progress /\ ~regime.pending_training
      ]_vars

\* run 1 has published, run 2 has raised and returned: the model is still
\* run 1's and both flags are clear
C13_Witness ==
    /\ Len(runs) = 2
    /\ ~runs[1].raised /\ runs[1].pc = "done"
    /\ runs[2].raised /\ runs[2].pc = "done"
    /\ PublishedModel(regime) = <<1, 1, TRUE>>
    /\ ~regime.training_in_progress /\ ~regime.pending_training

\* ------------------------------------------------------------------------
\* Engine routing: initialize_cpp_engine (main.py 174-209), switch_engine
\* (1465-1488) and the routing test of session_analytics_worker (358-360).
\* startup() calls initialize_cpp_engine before the server accepts a
\* connection; switch_engine is a plain "def" endpoint, so each request
\* runs on a thread of its own while the session workers run.
\* ------------------------------------------------------------------------
MaxRequests == 3      \* startup and the switch_engine requests of a run

routerOthers ==
    <<engineVars, procVars, workerVars, sessionVars, regimeVars, unitVars, flowVars>>

StartupDone == reqs[1].pc = "done"

\* POST /engine/switch/{target}: lines 1470-1475 run before any lock is
\* taken; with the C++ engine disabled by configuration "cpp" is refused
SwitchEngine ==
    \E target \in {"cpp", "python"} :
        /\ StartupDone
        /\ Len(reqs) < MaxRequests
        /\ reqs' = Append(reqs,
                     [kind |-> target,
                      pc |-> IF target = "cpp" /\ ~router.USE_CPP_ENGINE
                             THEN "done" ELSE "begin"])
        /\ UNCHANGED <<router, seen, routerOthers>>

\* lines 1485-1486
SwitchToPython(q) ==
    /\ reqs[q].kind = "python" /\ reqs[q].pc = "begin"
    /\ router.engine_state_lock = "free"
    /\ router' = [router EXCEPT !.engine_mode = "python"]
    /\ reqs' = [reqs EXCEPT ![q].pc = "done"]
    /\ UNCHANGED <<seen, routerOthers>>

\* initialize_cpp_engine, lines 178-182: the lock is taken; with the C++
\* engine disabled the mode becomes "python" and the function returns
InitAcquire(q) ==
    /\ reqs[q].kind # "python" /\ reqs[q].pc = "begin"
    /\ router.engine_state_lock = "free"
    /\ router' = IF router.USE_CPP_ENGINE
                 THEN [router EXCEPT !.engine_state_lock = "held"]
                 ELSE [router EXCEPT !.engine_mode = "python"]
    /\ reqs' = [reqs EXCEPT ![q].pc = IF router.USE_CPP_ENGINE THEN "create" ELSE "done"]
    /\ UNCHANGED <<seen, routerOthers>>

\* line 185: the new client is assigned to the global; the constructor may
\* raise
InitCreate(q) ==
    \E ok \in BOOLEAN :
        /\ reqs[q].pc = "create"
        /\ router' = IF ok
                     THEN [router EXCEPT !.n_clients = @ + 1,
                                         !.cpp_client = router.n_clients + 1]
                     ELSE router
        /\ reqs' = [reqs EXCEPT ![q].pc = IF ok THEN "probe" ELSE "except"]
        /\ UNCHANGED <<seen, routerOthers>>

\* line 194: the connection test, a blocking RPC
InitProbe(q) ==
    \E ok \in BOOLEAN :
        /\ reqs[q].pc = "probe"
        /\ router' = IF ok THEN [router EXCEPT !.probed = @ \cup {router.cpp_client}]
                     ELSE router
        /\ reqs' = [reqs EXCEPT ![q].pc = IF ok THEN "commit" ELSE "except"]
        /\ UNCHANGED <<seen, routerOthers>>

\* lines 197-198, and the lock is released
InitCommit(q) ==
    /\ reqs[q].pc = "commit"
    /\ router' = [router EXCEPT !.engine_mode = "cpp", !.engine_state_lock = "free"]
    /\ reqs' = [reqs EXCEPT ![q].pc = "done"]
    /\ UNCHANGED <<seen, routerOthers>>

\* lines 202 / 207
InitExceptMode(q) ==
    /\ reqs[q].pc = "except"
    /\ router' = [router EXCEPT !.engine_mode = "python"]
    /\ reqs' = [reqs EXCEPT ![q].pc = "except2"]
    /\ UNCHANGED <<seen, routerOthers>>

\* lines 203-204 / 208-209, and the lock is released
InitExceptClient(q) ==
    /\ reqs[q].pc = "except2"
    /\ router' = [router EXCEPT !.cpp_client = 0, !.engine_state_lock = "free"]
    /\ reqs' = [reqs EXCEPT ![q].pc = "done"]
    /\ UNCHANGED <<seen, routerOthers>>

\* session_analytics_worker, line 358, first operand: engine_mode == "cpp"
ReadMode(w) ==
    /\ StartupDone
    /\ seen[w].pc = "idle"
    /\ seen' = [seen EXCEPT ![w] = [pc |-> IF router.engine_mode = "cpp"
                                           THEN "client" ELSE "idle",
                                    engine_mode |-> router.engine_mode,
                                    cpp_client |-> 0]]
    /\ UNCHANGED <<router, reqs, routerOthers>>

\* line 358, second operand: cpp_client is not None
ReadClient(w) ==
    /\ seen[w].pc = "client"
    /\ seen' = [seen EXCEPT ![w].cpp_client = router.cpp_client,
                            ![w].pc = IF router.cpp_client # 0 THEN "call" ELSE "idle"]
    /\ UNCHANGED <<router, reqs, routerOthers>>

\* line 360: the global is read again for the call (None here raises
\* AttributeError, which the handler at 371 turns into the fallback)
CallClient(w) ==
    /\ seen[w].pc = "call"
    /\ seen' = [seen EXCEPT ![w].cpp_client = router.cpp_client, ![w].pc = "idle"]
    /\ UNCHANGED <<router, reqs, routerOthers>>

InitRouter ==
    /\ engine = EngineInit(0)
    /\ clock = 0
    /\ calls = 0
    /\ last = NoResult
    /\ ProcIdle
    /\ WorkersIdle
    /\ SessionsIdle
    /\ FlowIdle
    /\ RegimeIdle
    /\ UnitsIdle
    /\ \E use \in BOOLEAN : router = [RouterInit EXCEPT !.USE_CPP_ENGINE = use]
    /\ reqs = << [kind |-> "startup", pc |-> "begin"] >>
    /\ seen = [w \in Sessions |-> ReaderInit]

NextRouter ==
    \/ SwitchEngine
    \/ \E q \in DOMAIN reqs : SwitchToPython(q)
    \/ \E q \in DOMAIN reqs : InitAcquire(q)
    \/ \E q \in DOMAIN reqs : InitCreate(q)
    \/ \E q \in DOMAIN reqs : InitProbe(q)
    \/ \E q \in DOMAIN reqs : InitCommit(q)
    \/ \E q \in DOMAIN reqs : InitExceptMode(q)
    \/ \E q \in DOMAIN reqs : InitExceptClient(q)
    \/ \E w \in Sessions : ReadMode(w)
    \/ \E w \in Sessions : ReadClient(w)
    \/ \E w \in Sessions : CallClient(w)

SpecRouter == InitRouter /\ [][NextRouter]_vars

\* C14: whenever a worker can read the routing globals, engine_mode = "cpp"
\* together with a non-null cpp_client means that this client has already
\* passed the connection test, in the globals and in what a worker has read
\* of them, during start-up and during a manual switch to cpp.
C14_PublishedClientIsProbed ==
    /\ (router.engine_mode = "cpp" /\ router.cpp_client # 0)
          => router.cpp_client \in router.probed
    /\ \A w \in Sessions :
          (seen[w].engine_mode = "cpp" /\ seen[w].cpp_client # 0)
             => seen[w].cpp_client \in router.probed

\* ------------------------------------------------------------------------
\* AdaptiveProcessor (main.py 230-273) driven directly: should_process and
\* record_processing_time in any order.  calls counts the samples recorded.
\* ------------------------------------------------------------------------
MaxMixed == 10        \* the measured time varies freely for this many samples
MaxSamples == 22      \* samples recorded per run of SpecAdaptive

\* measured processing times (tenths of a millisecond): 1 ms or 200 ms while
\* the stream is mixed, afterwards the time stays where it is
SampleTimes(n, pt) == IF n < MaxMixed THEN {10, 2000} ELSE {Last(pt)}

adaptiveOthers ==
    <<engine, clock, last, procVars, glob, wfail, out, wstreak, soloEngine, soloOut,
      sessionVars, regimeVars, routerVars, am, amlast, lay, vp, ice, flowVars>>

\* adaptive_processor.should_process(snapshot); aphist.misses counts the
\* calls that returned False since the last one that returned True (or
\* since the mode was entered)
ShouldProcess ==
    \E sp \in {should_process(adaptive)} :
        /\ adaptive' = sp[2]
        /\ aphist' = [op |-> "should_process", ret |-> sp[1],
                      misses |-> (IF aphist.ret THEN 0 ELSE aphist.misses)
                                 + (IF sp[1] THEN 0 ELSE 1)]
        /\ UNCHANGED <<calls, adaptiveOthers>>

\* adaptive_processor.record_processing_time(processing_time)
RecordProcessingTime ==
    \E ms10 \in SampleTimes(calls, adaptive.processing_times) :
      \E ap \in {record_processing_time(adaptive, ms10)} :
        /\ calls < MaxSamples
        /\ calls' = calls + 1
        /\ adaptive' = ap
        /\ aphist' = IF ap.adaptive_mode # adaptive.adaptive_mode
                     THEN [op |-> "record", ret |-> TRUE, misses |-> 0]
                     ELSE [aphist EXCEPT !.op = "record"]
        /\ UNCHANGED adaptiveOthers

InitAdaptive == InitEngine

NextAdaptive == ShouldProcess \/ RecordProcessingTime

SpecAdaptive == InitAdaptive /\ [][NextAdaptive]_vars

\* C15: in adaptive mode with skip ratio r, should_process returns True on
\* exactly every r-th consecutive call (after r-1 calls that returned False)
\* and False on the r-1 calls in between; outside adaptive mode it returns
\* True on every call.
C15_EveryRthCall ==
    aphist.op = "should_process" =>
        IF adaptive.adaptive_mode
        THEN /\ aphist.ret => aphist.misses = adaptive.skip_ratio - 1
             /\ ~aphist.ret => aphist.misses <= adaptive.skip_ratio - 1
        ELSE aphist.ret

\* in adaptive mode with ratio 3, a call has returned True after two calls
\* that returned False
C15_Witness ==
    /\ aphist.op = "should_process"
    /\ adaptive.adaptive_mode /\ adaptive.skip_ratio = 3
    /\ aphist.ret /\ aphist.misses = 2

\* sum of the last five samples (tenths of a millisecond)
Sum5(pt) == SumSeq(SubSeq(pt, Len(pt) - 4, Len(pt)))

\* C16 as stated: adaptive mode is entered only with at least 5 samples
\* whose last five average more than 100 ms, and on entry skip_ratio is
\* avg/50 clamped into [1, 3]; it is left only when that average is below
\* 70 ms; between the two neither the mode nor skip_ratio changes; never
\* more than 20 samples are retained.
C16_SkipRatioIsClampedQuotient ==
    [][ /\ (~adaptive.adaptive_mode /\ adaptive'.adaptive_mode)
              => /\ Len(adaptive'.processing_times) >= 5
                 /\ Sum5(adaptive'.processing_times) > 5000
                 /\ adaptive'.skip_ratio * 2500
                       = Max(2500, Min(7500, Sum5(adaptive'.processing_times)))
        /\ (adaptive.adaptive_mode /\ ~adaptive'.adaptive_mode)
              => Sum5(adaptive'.processing_times) < 3500
        /\ (adaptive.adaptive_mode = adaptive'.adaptive_mode)
              => adaptive'.skip_ratio = adaptive.skip_ratio
        /\ Len(adaptive'.processing_times) <= 20
      ]_vars

\* C16 amended: the same, with skip_ratio on entry the integer part of
\* avg/50 capped at 3 (so 2 or 3, since avg > 100 ms).
C16_SkipRatioIsFloorCapped ==
    [][ /\ (~adaptive.adaptive_mode /\ adaptive'.adaptive_mode)
              => /\ Len(adaptive'.processing_times) >= 5
                 /\ Sum5(adaptive'.processing_times) > 5000
                 /\ adaptive'.skip_ratio \in {2, 3}
                 /\ adaptive'.skip_ratio * 2500 <= Sum5(adaptive'.processing_times)
                 /\ adaptive'.skip_ratio = 2
                       => Sum5(adaptive'.processing_times) < 7500
        /\ (adaptive.adaptive_mode /\ ~adaptive'.adaptive_mode)
              => /\ Len(adaptive'.processing_times) >= 5
                 /\ Sum5(adaptive'.processing_times) < 3500
        /\ (adaptive.adaptive_mode = adaptive'.adaptive_mode)
              => adaptive'.skip_ratio = adaptive.skip_ratio
        /\ Len(adaptive'.processing_times) <= 20
      ]_vars

\* more than 20 samples have been recorded, 20 are retained, and the mode
\* entered with the five-sample average between 100 and 150 ms is still on
C16_Witness ==
    /\ calls > 20
    /\ Len(adaptive.processing_times) = 20
    /\ adaptive.adaptive_mode /\ adaptive.skip_ratio = 2

\* ------------------------------------------------------------------------
\* AlertManager.escalate_severity (analytics_core.py 359-373) driven
\* directly, as tests/test_analytics.py does: one call per accepted alert.
\* ------------------------------------------------------------------------
MaxAlertCount == 6    \* occurrences of one alert type per run of SpecAlert

AlertTypes == {"SPOOFING", "DEPTH_SHOCK", "HEAVY_IMBALANCE", "LAYERING"}

\* the alerts handed to the manager
AlertPool ==
    {Alert(t, sev, <<1>>) : t \in AlertTypes, sev \in {"medium", "high", "critical"}}

alertOthers ==
    <<engineVars, procVars, workerVars, sessionVars, regimeVars, routerVars,
      aphist, lay, vp, ice, flowVars>>

\* escalated = manager.escalate_severity(alert)
EscalateSeverity ==
    \E alert \in AlertPool :
      \E esc \in {escalate_severity(am, alert)} :
        /\ AlertCount(am, alert.type) < MaxAlertCount
        /\ am' = esc[2]
        /\ amlast' = [op |-> "escalate_severity", given |-> alert,
                      returned |-> esc[1], before |-> AlertCount(am, alert.type)]
        /\ UNCHANGED alertOthers

InitAlert == InitEngine

NextAlert == EscalateSeverity

SpecAlert == InitAlert /\ [][NextAlert]_vars

\* one step up the severity scale
OneStepUp(sev) == IF sev = "medium" THEN "high" ELSE "critical"

\* C17: escalate_severity raises the counter of the alert's type by exactly
\* 1; for a type with a threshold whose counter has reached it, a medium or
\* high alert comes back one severity step higher and with its message
\* suffixed by "[ESCALATED: n occurrences]", n the counter; an alert of a
\* type without a threshold, or below the threshold, comes back unchanged.
C17_EscalationStepAndSuffix ==
    amlast.op = "escalate_severity" =>
        LET a == amlast.given
            b == amlast.returned
            n == AlertCount(am, a.type)
        IN  /\ n = amlast.before + 1
            /\ IF /\ a.type \in DOMAIN escalation_thresholds
                  /\ n >= escalation_thresholds[a.type]
                  /\ a.severity \in {"medium", "high"}
               THEN /\ b.severity = OneStepUp(a.severity)
                    /\ b.msg = a.msg \o <<ESCALATION_MARK, n>>
                    /\ b.type = a.type
               ELSE b = a

\* ------------------------------------------------------------------------
\* The layering detector (analytics_core.py 646-672 and 1232-1263) applied
\* to books whose sides hold chosen numbers of large levels.
\* ------------------------------------------------------------------------
MaxLayerLevels == 6    \* levels per side; only the first 5 are examined

LayerBaselines == {10 * FP, 50 * FP}    \* avg_l1_vol

\* volume 150 is large under both baselines, 60 under the lower one only,
\* 15 under none; levels after the fifth are large when deep is TRUE
LayerVolume(i, k150, k60, deep) ==
    IF i > 5 THEN (IF deep THEN 150 ELSE 15)
    ELSE IF i <= k150 THEN 150
    ELSE IF i <= k150 + k60 THEN 60 ELSE 15

LayerBids(k150, k60, deep) ==
    [i \in 1..MaxLayerLevels |-> <<10000 - 5 * i, LayerVolume(i, k150, k60, deep)>>]

LayerAsks(k150, k60, deep) ==
    [i \in 1..MaxLayerLevels |-> <<10000 + 5 * i, LayerVolume(i, k150, k60, deep)>>]

LayerEngine == [EngineInit(0) EXCEPT !.avg_l1_vol = lay.avg_l1_vol]

LayerSnap == Snap(10000, lay.bids, lay.asks)

layeringOthers ==
    <<engineVars, procVars, workerVars, sessionVars, regimeVars, routerVars,
      aphist, am, amlast, vp, ice, flowVars>>

\* the layering section of process_snapshot
ProcessSnapshotLayering ==
    /\ lay.op = "none"
    /\ lay' = [lay EXCEPT !.op = "process_snapshot",
                          !.alerts = LayeringAlerts(LayerEngine, LayerSnap)]
    /\ UNCHANGED layeringOthers

\* the layering section of detect_advanced_anomalies
DetectAdvancedLayering ==
    /\ lay.op = "none"
    /\ lay' = [lay EXCEPT !.op = "detect_advanced_anomalies",
                          !.alerts = AdvLayeringAlerts(LayerEngine, LayerSnap)]
    /\ UNCHANGED layeringOthers

InitLayering ==
    /\ engine = EngineInit(0)
    /\ clock = 0
    /\ calls = 0
    /\ last = NoResult
    /\ ProcIdle
    /\ WorkersIdle
    /\ SessionsIdle
    /\ FlowIdle
    /\ RegimeIdle
    /\ RouterIdle
    /\ aphist = NoCall
    /\ am = AlertManagerInit
    /\ amlast = NoAlert
    /\ vp = [state |-> VpinInit, last |-> NoTrade]
    /\ ice = NoIceberg
    /\ \E v \in LayerBaselines, b150 \in 0..5, b60 \in 0..5, a150 \in 0..5, a60 \in 0..5,
          bdeep \in BOOLEAN, adeep \in BOOLEAN :
         /\ b150 + b60 <= 5
         /\ a150 + a60 <= 5
         /\ lay = [avg_l1_vol |-> v,
                   bids |-> LayerBids(b150, b60, bdeep),
                   asks |-> LayerAsks(a150, a60, adeep),
                   op |-> "none", alerts |-> <<>>]

NextLayering == ProcessSnapshotLayering \/ DetectAdvancedLayering

SpecLayering == InitLayering /\ [][NextLayering]_vars

\* large levels among the first five of a side, counted from the book
LargeLevels(levels) ==
    Cardinality({i \in DOMAIN levels :
                   i <= 5 /\ levels[i][2] * FP > 2 * lay.avg_l1_vol})

LayeringAlertFor(side) ==
    \E i \in DOMAIN lay.alerts :
       lay.alerts[i].type = "LAYERING" /\ lay.alerts[i].msg[2] = side

\* the alert, if any, carries the side's count, min(count*20, 100) as its
\* score and the severity that goes with the score
LayeringAlertsWellFormed ==
    \A i \in DOMAIN lay.alerts :
       LET al == lay.alerts[i]
           n  == IF al.msg[2] = BID THEN LargeLevels(lay.bids) ELSE LargeLevels(lay.asks)
       IN  /\ al.msg[1] = n
           /\ al.msg[3] = Min(n * 20, 100)
           /\ al.severity = IF al.msg[3] > 70 THEN "critical" ELSE "high"

\* C18 (as amended): LAYERING is emitted for a side exactly when that side's
\* count of large levels (volume > 2*avg_l1_vol among the first 5 levels) is
\* at least 3 and exceeds the other side's count by at least 3; the alert's
\* score is min(count*20, 100), its severity critical if score > 70 and high
\* otherwise.
C18_LayeringNeedsLeadOfThree ==
    lay.op # "none" =>
        /\ LayeringAlertFor(BID) <=>
              (LargeLevels(lay.bids) >= 3
                 /\ LargeLevels(lay.bids) >= LargeLevels(lay.asks) + 3)
        /\ LayeringAlertFor(ASK) <=>
              (LargeLevels(lay.asks) >= 3
                 /\ LargeLevels(lay.asks) >= LargeLevels(lay.bids) + 3)
        /\ LayeringAlertsWellFormed

\* C18 (as stated): LAYERING is emitted for a side exactly when that side's
\* count of large levels is at least 3 and exceeds the other side's count by
\* at least 2, with score min(count*20, 100) and severity critical above 70.
C18_LayeringNeedsLeadOfTwo ==
    lay.op # "none" =>
        /\ LayeringAlertFor(BID) <=>
              (LargeLevels(lay.bids) >= 3
                 /\ LargeLevels(lay.bids) >= LargeLevels(lay.asks) + 2)
        /\ LayeringAlertFor(ASK) <=>
              (LargeLevels(lay.asks) >= 3
                 /\ LargeLevels(lay.asks) >= LargeLevels(lay.bids) + 2)
        /\ LayeringAlertsWellFormed

\* four large asks against one large bid: a critical ASK alert of score 80,
\* the large sixth ask level not counted
C18_Witness ==
    /\ lay.op = "process_snapshot"
    /\ LargeLevels(lay.asks) = 4
    /\ LargeLevels(lay.bids) = 1
    /\ lay.asks[6][2] = 150
    /\ lay.alerts = << Alert("LAYERING", "critical", <<4, ASK, 80>>) >>

\* ------------------------------------------------------------------------
\* V-PIN (analytics_core.py 888-955, 986) on a book 9995 / 10005 with mid
\* 10000; vp.state holds the engine's four V-PIN fields.
\* ------------------------------------------------------------------------
BUCKET_SIZE == 1000      \* self.bucket_size
BUCKET_RING == 50        \* deque(maxlen=50)
VPIN_MIN_BUCKETS == 10   \* len(self.bucket_history) >= 10
TICK_SIZE == 1           \* TradeClassifier.tick_size, 0.01
\* imbalances are held in units of 1/OI_UNIT, exact for the bucket totals
\* 500, 1000 and 1500 that the trade volumes produce
OI_UNIT == 3000
VPIN_DIGITS == 10000     \* round(vpin, 4)

MaxBuckets == 11         \* completed buckets in the ring
MaxMixedBuckets == 3     \* buckets filled by trades of every kind

\* TradeClassifier.classify_trade
classify_trade(trade_price, mid_price, best_bid, best_ask) ==
    IF trade_price > mid_price THEN "buy"
    ELSE IF trade_price < mid_price THEN "sell"
    ELSE IF best_ask - best_bid < TICK_SIZE THEN "unknown"
    ELSE IF trade_price - best_bid < best_ask - trade_price THEN "sell"
    ELSE IF best_ask - trade_price < trade_price - best_bid THEN "buy"
    ELSE "unknown"

\* lines 920-925
VpinAccumulate(st, trade_volume, trade_side) ==
    [st EXCEPT !.current_bucket_buy = IF trade_side = "buy" THEN @ + trade_volume ELSE @,
               !.current_bucket_sell = IF trade_side = "sell" THEN @ + trade_volume ELSE @,
               !.current_bucket_vol = @ + trade_volume]

\* line 945
BucketOI(st) ==
    (Abs(st.current_bucket_buy - st.current_bucket_sell) * OI_UNIT)
        \div (st.current_bucket_buy + st.current_bucket_sell)

\* np.mean(self.bucket_history) as written to the snapshot by round(vpin, 4)
VpinMean(ring) == RoundDiv(VPIN_DIGITS * SumSeq(ring), OI_UNIT * Len(ring))

\* lines 941-955, on the state after accumulation
VpinComplete(st) ==
    IF st.current_bucket_vol >= BUCKET_SIZE
    THEN \* the ring after line 946
         LET ring == IF st.current_bucket_buy + st.current_bucket_sell > 0
                     THEN RingAppend(st.bucket_history, BucketOI(st), BUCKET_RING)
                     ELSE st.bucket_history
         IN  [state |-> [current_bucket_vol |-> 0, current_bucket_buy |-> 0,
                         current_bucket_sell |-> 0, bucket_history |-> ring],
              vpin |-> IF Len(ring) >= VPIN_MIN_BUCKETS THEN VpinMean(ring) ELSE 0,
              completed |-> TRUE]
    ELSE [state |-> st, vpin |-> 0, completed |-> FALSE]

\* lines 893-955: vpin = 0 unless this snapshot's trade completes a bucket
VpinBlock(st, trade_volume, trade_price, mid_price, best_bid, best_ask) ==
    IF trade_volume > 0
    THEN VpinComplete(VpinAccumulate(st, trade_volume,
                         classify_trade(trade_price, mid_price, best_bid, best_ask)))
    ELSE [state |-> st, vpin |-> 0, completed |-> FALSE]

\* (trade_volume, last_trade_price) of the snapshots; <<0, mid>> is a
\* snapshot without a trade
VpinTrades(n) ==
    IF n < MaxMixedBuckets
    THEN {<<0, 10000>>} \cup ({500, 1000} \X {9995, 10000, 10005})
    ELSE {<<0, 10000>>, <<1000, 10005>>, <<500, 9995>>}

vpinOthers ==
    <<engineVars, procVars, workerVars, sessionVars, regimeVars, routerVars,
      aphist, am, amlast, lay, ice, flowVars>>

\* the V-PIN section of one process_snapshot call
ProcessSnapshotVpin ==
    /\ Len(vp.state.bucket_history) < MaxBuckets
    /\ \E tr \in VpinTrades(Len(vp.state.bucket_history)) :
         \E res \in {VpinBlock(vp.state, tr[1], tr[2], 10000, 9995, 10005)} :
           /\ vp' = [state |-> res.state,
                     last |-> [op |-> "process_snapshot", vpin |-> res.vpin,
                               completed |-> res.completed,
                               ring |-> vp.state.bucket_history,
                               oi |-> IF res.completed
                                         /\ res.state.bucket_history # vp.state.bucket_history
                                      THEN Last(res.state.bucket_history) ELSE 0]]
           /\ UNCHANGED vpinOthers

InitVpin == InitEngine

NextVpin == ProcessSnapshotVpin

SpecVpin == InitVpin /\ [][NextVpin]_vars

\* C19: when a bucket is completed its order imbalance, a value in [0,1],
\* is appended to the ring of completed buckets and the accumulators are
\* reset to zero; the vpin field of every enriched snapshot equals the mean
\* of the ring when the ring holds at least 10 buckets and is 0 otherwise,
\* so 0 <= vpin <= 1 on every snapshot.
C19_VpinIsRingMean ==
    vp.last.op = "process_snapshot" =>
        /\ vp.last.completed =>
              /\ vp.state.current_bucket_vol = 0
              /\ vp.state.current_bucket_buy = 0
              /\ vp.state.current_bucket_sell = 0
              /\ vp.state.bucket_history # vp.last.ring =>
                    /\ vp.state.bucket_history = Append(vp.last.ring, vp.last.oi)
                    /\ 0 <= vp.last.oi /\ vp.last.oi <= OI_UNIT
        /\ ~vp.last.completed => vp.state.bucket_history = vp.last.ring
        /\ Len(vp.state.bucket_history) <= BUCKET_RING
        /\ vp.last.vpin = IF Len(vp.state.bucket_history) >= VPIN_MIN_BUCKETS
                          THEN VpinMean(vp.state.bucket_history) ELSE 0
        /\ 0 <= vp.last.vpin /\ vp.last.vpin <= VPIN_DIGITS

\* ------------------------------------------------------------------------
\* Iceberg detection (analytics_core.py 728-793): detect_advanced_anomalies
\* called again and again with one and the same snapshot, as in
\* tests/test_advanced_anomalies.py 208-229, at chosen intervals.
\* ------------------------------------------------------------------------
MaxIceCalls == 12      \* calls per run of SpecIceberg
ICE_FILLS == 8         \* candidate['fills'] >= 8
ICE_RUN == 12          \* "twelve consecutive identical snapshots"

IcePool == {S_norm, S_deep, S_uneven}

\* seconds between two calls
IceElapsed == {1, 100}

\* the candidate key of the best bid of the repeated snapshot
IceKey == <<BID, ice.snap.bids[1][1]>>

\* fill count of the candidate, 0 when there is none
IceFills(e) ==
    IF IceKey \in DOMAIN e.iceberg_candidates
    THEN e.iceberg_candidates[IceKey].fills ELSE 0

\* the ICEBERG_ORDER alerts of one call that name the best bid
IceBidAlerts(anomalies) ==
    SelectSeq(anomalies,
              LAMBDA al : /\ al.type = "ICEBERG_ORDER"
                          /\ al.msg[2] = IceKey[2] /\ al.msg[3] = BID)

icebergOthers ==
    <<last, procVars, workerVars, sessionVars, regimeVars, routerVars,
      aphist, am, amlast, lay, vp, flowVars>>

\* result = engine.detect_advanced_anomalies(snapshot)
DetectAdvancedAnomalies ==
    /\ calls < MaxIceCalls
    /\ \E dt \in (IF calls = 0 THEN {0} ELSE IceElapsed) :
         \E fr \in {detect_advanced_anomalies(engine, ice.snap, clock + dt)} :
           \E mine \in {IceBidAlerts(fr.anomalies)} :
             /\ ~fr.raised
             /\ engine' = fr.engine
             /\ clock' = clock + dt
             /\ calls' = calls + 1
             /\ ice' = [ice EXCEPT
                          !.first = IF calls = 0 THEN clock + dt ELSE @,
                          !.seventh = IF calls + 1 = ICE_FILLS - 1 THEN clock + dt ELSE @,
                          !.fills = IceFills(engine),
                          !.alerted = mine # <<>>,
                          !.fill_count = IF mine # <<>> THEN mine[1].msg[1] ELSE 0,
                          !.cleared = IceKey \notin DOMAIN fr.engine.iceberg_candidates,
                          !.alerts = @ + Len(mine)]
    /\ UNCHANGED icebergOthers

InitIceberg ==
    /\ engine = EngineInit(0)
    /\ clock = 0
    /\ calls = 0
    /\ last = NoResult
    /\ ProcIdle
    /\ WorkersIdle
    /\ SessionsIdle
    /\ FlowIdle
    /\ RegimeIdle
    /\ RouterIdle
    /\ aphist = NoCall
    /\ am = AlertManagerInit
    /\ amlast = NoAlert
    /\ lay = NoLayering
    /\ vp = [state |-> VpinInit, last |-> NoTrade]
    /\ \E snap \in IcePool : ice = [NoIceberg EXCEPT !.snap = snap]

NextIceberg == DetectAdvancedAnomalies

SpecIceberg == InitIceberg /\ [][NextIceberg]_vars

\* a call alerts for the best bid exactly when it brings the candidate's
\* fill count to 8; the alert reports 8 fills and the candidate is gone
\* after the call
IceAlertAtEighthFill ==
    calls > 0 =>
        /\ ice.alerted <=> ice.fills = ICE_FILLS - 1
        /\ ice.alerted => ice.fill_count = ICE_FILLS /\ ice.cleared
        /\ ice.fills < ICE_FILLS

\* C20 (as amended): a key that re-appears on consecutive snapshots with
\* constant volume is alerted on the appearance that brings its fill count
\* to 8, its entry is deleted in the same step and a further alert needs 8
\* fresh appearances; twelve consecutive identical snapshots yield at most
\* one ICEBERG_ORDER alert for the bid price, and exactly one, of
\* fill_count 8 and side BID, when the seventh arrives no later than five
\* minutes after the first.
C20_OneAlertWithinFiveMinutes ==
    /\ IceAlertAtEighthFill
    /\ calls <= ICE_RUN => ice.alerts <= 1
    /\ (calls = ICE_RUN /\ ice.seventh - ice.first <= ICEBERG_TTL) => ice.alerts = 1

\* C20 (as stated): the alert comes with the eighth fill, the entry is
\* deleted in the same step, and twelve consecutive identical snapshots
\* yield exactly one ICEBERG_ORDER alert for the bid price.
C20_TwelveSnapshotsOneAlert ==
    /\ IceAlertAtEighthFill
    /\ calls = ICE_RUN => ice.alerts = 1

\* twelve snapshots, two of the first seven 100 seconds apart, one alert,
\* and four fresh fills counted since
C20_Witness ==
    /\ calls = ICE_RUN
    /\ ice.seventh - ice.first > 100
    /\ ice.seventh - ice.first <= ICEBERG_TTL
    /\ ice.alerts = 1
    /\ IceFills(engine) = ICE_RUN - ICE_FILLS

\* ------------------------------------------------------------------------
\* Playback of one session: the control endpoints of main.py 1029-1092 and
\* UserSession (session_replay.py 32-90) against session_replay_loop
\* (main.py 403-476).  The endpoints and the loop are coroutines of one
\* event loop, so each runs undisturbed from one await to the next.  The
\* source table holds rows with timestamps 1..MaxRows.
\* ------------------------------------------------------------------------
MaxRows == 3             \* rows of l2_orderbook
BatchRows == 2           \* LIMIT of one batch (REPLAY_BATCH_SIZE, 500 in main.py)
MaxIngest == 3           \* rows put on the raw queue per run of SpecReplay
MaxRewinds == 1          \* go_back calls per run of SpecReplay

\* arguments of set_speed: integers, the float 2.7, the strings "7" and
\* "fast", and None
SpeedInputs ==
    {[kind |-> "int", value |-> n] : n \in {0 - 3, 0, 7, 10, 11, 50, 100, 101}}
        \cup {[kind |-> "float", value |-> 27], [kind |-> "str", value |-> 7],
              [kind |-> "str", value |-> None], [kind |-> "none", value |-> 0]}

\* the arguments the endpoint is called with
SpeedCalls ==
    {[kind |-> "int", value |-> 50], [kind |-> "float", value |-> 27],
     [kind |-> "str", value |-> None]}

\* seconds of go_back
RewindSeconds == {1, 2}

\* "SELECT * FROM l2_orderbook WHERE ts > $1 ORDER BY ts LIMIT $2";
\* datetime.min stands in for a cursor that is None
Fetch(last_ts) ==
    LET from == IF last_ts = None THEN 1 ELSE Max(1, last_ts + 1)
        to   == Min(MaxRows, from + BatchRows - 1)
    IN  [i \in 1..(IF to >= from THEN to - from + 1 ELSE 0) |-> from + i - 1]

\* lines 449-458: pop the next row, move the cursor, queue the snapshot
PopAndPut(o) ==
    [o EXCEPT !.cursor_ts = Head(o.replay_buffer),
              !.replay_buffer = Tail(o.replay_buffer),
              !.raw_snapshot_queue = Append(@, Head(o.replay_buffer)),
              !.ingest = Append(@, Head(o.replay_buffer)),
              !.rpc = "sleeping"]

replayOthers ==
    <<engineVars, procVars, workerVars, sessionVars, regimeVars, routerVars,
      unitVars, errs, inq, bufs, hist, probeVars>>

Forget(c) == [c EXCEPT !.rewound = None]

\* one pass of "while session.is_active()" up to its first await
ReplayPass ==
    /\ play.rpc = "check"
    /\ IF ~is_active(play)
       THEN play' = [play EXCEPT !.rpc = "done"] /\ ctl' = ctl
       ELSE /\ play.state = "PLAYING"
            /\ IF play.replay_buffer = <<>>
               THEN /\ play' = [play EXCEPT !.rpc = "fetching", !.last_ts = play.cursor_ts]
                    /\ ctl' = ctl
               ELSE /\ Len(play.ingest) < MaxIngest
                    /\ play' = PopAndPut(play)
                    /\ ctl' = Forget(ctl)
    /\ UNCHANGED replayOthers

\* conn.fetch returns: no rows end the replay, otherwise the batch is
\* appended to replay_buffer and its first row goes out
FetchReturns ==
    /\ play.rpc = "fetching"
    /\ \E rows \in {Fetch(play.last_ts)} :
         IF rows = <<>>
         THEN /\ play' = stop([play EXCEPT !.rpc = "check", !.last_ts = None])
              /\ ctl' = ctl
         ELSE /\ Len(play.ingest) < MaxIngest
              /\ play' = PopAndPut([play EXCEPT !.replay_buffer = @ \o rows,
                                                !.last_ts = None])
              /\ ctl' = Forget(ctl)
    /\ UNCHANGED replayOthers

\* asyncio.sleep is over
ReplayWakes ==
    /\ play.rpc = "sleeping"
    /\ play' = [play EXCEPT !.rpc = "check"]
    /\ UNCHANGED <<ctl, replayOthers>>

\* the session's worker and broadcaster carry the oldest queued snapshot
\* to data_buffer (deque(maxlen=100))
PlayDeliver ==
    /\ is_active(play)
    /\ play.raw_snapshot_queue # <<>>
    /\ play' = [play EXCEPT !.raw_snapshot_queue = Tail(@),
                            !.data_buffer = RingAppend(@, Head(play.raw_snapshot_queue), 100)]
    /\ UNCHANGED <<ctl, replayOthers>>

\* POST /replay/{session_id}/start
StartEndpoint ==
    /\ play.running
    /\ play' = [start(play) EXCEPT !.replay_buffer = <<>>]
    /\ UNCHANGED <<ctl, replayOthers>>

\* POST /replay/{session_id}/pause
PauseEndpoint ==
    /\ play.running
    /\ play' = pause(play)
    /\ UNCHANGED <<ctl, replayOthers>>

\* POST /replay/{session_id}/resume
ResumeEndpoint ==
    /\ play.running
    /\ play' = resume(play)
    /\ UNCHANGED <<ctl, replayOthers>>

\* POST /replay/{session_id}/stop
StopEndpoint ==
    /\ play.running
    /\ play' = stop(play)
    /\ ctl' = Forget(ctl)
    /\ UNCHANGED replayOthers

\* session.set_speed(v)
SetSpeedEndpoint ==
    /\ play.running
    /\ \E v \in SpeedCalls : play' = set_speed(play, v)
    /\ UNCHANGED <<ctl, replayOthers>>

\* POST /replay/{session_id}/goback/{seconds}
GoBackCall(seconds) ==
    /\ play.running
    /\ ctl.rewinds < MaxRewinds
    /\ \E res \in {go_back(play, seconds)} :
         /\ play' = res[1]
         /\ ctl' = [ret |-> res[2],
                    rewound |-> IF res[2] THEN res[1].cursor_ts ELSE ctl.rewound,
                    rewinds |-> ctl.rewinds + 1]
    /\ UNCHANGED replayOthers

GoBackEndpoint == \E seconds \in RewindSeconds : GoBackCall(seconds)

\* DELETE /sessions/{session_id}
ShutdownEndpoint ==
    /\ play.running
    /\ play' = shutdown(play)
    /\ ctl' = Forget(ctl)
    /\ UNCHANGED replayOthers

InitReplay == InitEngine

NextReplay ==
    \/ ReplayPass
    \/ FetchReturns
    \/ ReplayWakes
    \/ PlayDeliver
    \/ StartEndpoint
    \/ PauseEndpoint
    \/ ResumeEndpoint
    \/ StopEndpoint
    \/ SetSpeedEndpoint
    \/ GoBackEndpoint
    \/ ShutdownEndpoint

SpecReplay == InitReplay /\ [][NextReplay]_vars


\* ------------------------------------------------------------------------
\* Properties of playback
\* ------------------------------------------------------------------------
PlaybackStates == {"STOPPED", "PLAYING", "PAUSED"}

\* C21: state is always one of STOPPED, PLAYING, PAUSED; pause() changes
\* nothing unless the state is PLAYING, resume() changes nothing unless it
\* is PAUSED; and from every reachable state start(); pause(); resume()
\* leaves the same state (PLAYING) and speed as start() alone.
C21_PlaybackStateMachine ==
    [][ /\ play.state \in PlaybackStates /\ play'.state \in PlaybackStates
        /\ (PauseEndpoint /\ play.state # "PLAYING") => play' = play
        /\ (PauseEndpoint /\ play.state = "PLAYING") => play'.state = "PAUSED"
        /\ (ResumeEndpoint /\ play.state # "PAUSED") => play' = play
        /\ (ResumeEndpoint /\ play.state = "PAUSED") => play'.state = "PLAYING"
        /\ resume(pause(start(play))).state = "PLAYING"
        /\ start(play).state = "PLAYING"
        /\ resume(pause(start(play))).speed = start(play).speed
      ]_vars

\* paused at speed 10 in the middle of a replay
C21_Witness ==
    /\ play.state = "PAUSED"
    /\ play.speed = 10
    /\ play.cursor_ts = 2
    /\ play.rpc = "check"

\* what the stated set_speed stores: v clamped into [1, 100] for an
\* integer v, 1 for anything else
StatedSpeed(v) == IF v.kind = "int" THEN Max(1, Min(v.value, 100)) ELSE 1

\* C22: set_speed(v) stores v clamped into [1, 100] for every integer v and
\* 1 for a non-integer argument, so that speed lies in [1, 100] after every
\* sequence of control operations.
C22_SpeedClampedToHundred ==
    /\ play.speed >= 1 /\ play.speed <= 100
    /\ \A v \in SpeedInputs : set_speed(play, v).speed = StatedSpeed(v)

\* C23: go_back(seconds) with cursor_ts set moves cursor_ts back by seconds,
\* empties replay_buffer and data_buffer, leaves state and speed alone and
\* reports success; with no cursor it reports an error and changes neither
\* state, speed, cursor_ts nor the two buffers.
C23_GoBackFrame ==
    [][ \A seconds \in RewindSeconds :
          GoBackCall(seconds) =>
             IF play.cursor_ts # None
             THEN /\ ctl'.ret
                  /\ play'.cursor_ts = play.cursor_ts - seconds
                  /\ play'.replay_buffer = <<>>
                  /\ play'.data_buffer = <<>>
                  /\ play'.state = play.state
                  /\ play'.speed = play.speed
             ELSE /\ ~ctl'.ret
                  /\ play' = play
      ]_vars

\* a rewind from row 2 by two seconds has emptied a data_buffer that held a
\* snapshot, with a row still waiting in the raw queue
C23_Witness ==
    /\ ctl.ret
    /\ ctl.rewound = 0
    /\ play.cursor_ts = 0
    /\ play.data_buffer = <<>>
    /\ play.replay_buffer = <<>>
    /\ play.raw_snapshot_queue = <<2>>
    /\ play.state = "PLAYING"

\* the first source row after cursor c, 0 when there is none
FirstAfter(c) == IF c < MaxRows THEN Max(1, c + 1) ELSE 0

\* C24: after a successful go_back the next row the replay loop ingests is
\* the first source row whose timestamp is strictly greater than the
\* rewound cursor_ts, wherever the loop stood when go_back arrived.
C24_ResumesAfterRewoundCursor ==
    [][ (ctl.rewound # None /\ Len(play'.ingest) > Len(play.ingest))
           => Last(play'.ingest) = FirstAfter(ctl.rewound)
      ]_vars


\* ------------------------------------------------------------------------
\* The life of one session from the moment its client is connected: its
\* worker thread, replay loop and broadcaster against pause, disconnect and
\* delete_session.  A thread that can run is run and an awaited call
\* returns, which is what the fairness conditions say.
\* ------------------------------------------------------------------------
\* POST /replay/{session_id}/pause
PauseReplay ==
    \E sid \in ConnectIds :
        /\ registry[sid] # 0
        /\ objs[registry[sid]].state = "PLAYING"
        /\ objs' = [objs EXCEPT ![registry[sid]] = pause(@)]
        /\ UNCHANGED <<registry, conns, ws, engineVars, procVars, workerVars, restVars>>

\* websocket_endpoint has created session "A" and connected websocket w1
InitLifecycle ==
    /\ engine = EngineInit(0)
    /\ clock = 0
    /\ calls = 0
    /\ last = NoResult
    /\ ProcIdle
    /\ WorkersIdle
    /\ RestIdle
    /\ registry = [sid \in Sessions |-> IF sid = "A" THEN 1 ELSE 0]
    /\ objs = << NewSession("A") >>
    /\ conns = [sid \in Sessions |-> IF sid = "A" THEN "w1" ELSE "none"]
    /\ ws = [w \in WebSockets |->
               IF w = "w1"
               THEN [st |-> "open", sid |-> "A", obj |-> 1, got |-> << HistoryMessage(<<>>) >>]
               ELSE [st |-> "new", sid |-> "none", obj |-> 0, got |-> <<>>]]

NextLifecycle ==
    \/ Disconnect
    \/ DeleteSession
    \/ StartReplay
    \/ PauseReplay
    \/ SessionReplayLoop
    \/ WorkerCheck
    \/ WorkerGet
    \/ WorkerTimeout
    \/ WorkerPut
    \/ BroadcastCheck
    \/ BroadcastSend

SpecLifecycle ==
    /\ InitLifecycle
    /\ [][NextLifecycle]_vars
    /\ WF_vars(SessionReplayLoop)
    /\ WF_vars(WorkerCheck)
    /\ WF_vars(WorkerGet)
    /\ WF_vars(WorkerTimeout)
    /\ WF_vars(WorkerPut)
    /\ WF_vars(BroadcastCheck)
    /\ WF_vars(BroadcastSend)

\* C25: once shutdown() has returned, nothing more is appended to the
\* session's data_buffer and nothing more is sent to its client.
C25_NothingEmittedAfterShutdown ==
    [][ \A k \in DOMAIN objs :
          ~objs[k].running =>
             /\ objs'[k].appended = objs[k].appended
             /\ objs'[k].sent = objs[k].sent
      ]_vars

LoopsDone(k) ==
    /\ k \in DOMAIN objs
    /\ objs[k].wpc = "done"
    /\ objs[k].rpc = "done"
    /\ objs[k].bpc = "done"

\* C26: after shutdown() of a session its analytics worker, its replay loop
\* and its broadcaster each eventually leave their loops, whatever is in
\* the queues and whatever the playback state was.
C26_LoopsEndAfterShutdown ==
    \A k \in 1..MaxObjects :
        (k \in DOMAIN objs /\ ~objs[k].running) ~> LoopsDone(k)

\* all three have returned, a snapshot is left on the raw queue and one on
\* the processed queue
C26_Witness ==
    /\ ~objs[1].running
    /\ LoopsDone(1)
    /\ objs[1].raw_snapshot_queue # <<>>
    /\ objs[1].processed_snapshot_queue # <<>>

\* C28: when send_json fails, websocket_send_failed goes up by exactly 1,
\* the snapshot is neither delivered nor queued again, the failure removes
\* nothing from data_buffer, the broadcaster goes on with the next queued
\* snapshot, and the session's playback state, its registration, its
\* connection, its worker and its replay loop are as they were.
C28_SendFailureIsCountedOnly ==
    [][ errs' # errs =>
          \E k \in DOMAIN objs :
             /\ objs[k].bpc = "sending"
             /\ errs'.websocket_send_failed = errs.websocket_send_failed + 1
             /\ objs'[k].sent = objs[k].sent
             /\ objs[k].bheld \notin Range(objs'[k].processed_snapshot_queue)
             /\ Len(objs'[k].data_buffer) >= Len(objs[k].data_buffer)
             /\ SubSeq(objs'[k].data_buffer, 1, Len(objs[k].data_buffer)) = objs[k].data_buffer
             /\ IF objs[k].processed_snapshot_queue # <<>>
                THEN /\ objs'[k].bpc = "sending"
                     /\ objs'[k].bheld = Head(objs[k].processed_snapshot_queue)
                ELSE objs'[k].bpc = "check"
             /\ objs'[k].state = objs[k].state
             /\ objs'[k].running = objs[k].running
             /\ objs'[k].wpc = objs[k].wpc
             /\ objs'[k].rpc = objs[k].rpc
             /\ registry' = registry /\ conns' = conns /\ ws' = ws
      ]_vars

\* the first snapshot could not be sent, the second was delivered, both are
\* in data_buffer and the session plays on
C28_Witness ==
    /\ errs.websocket_send_failed = 1
    /\ objs[1].running
    /\ objs[1].state = "PLAYING"
    /\ objs[1].appended = <<1, 2>>
    /\ objs[1].data_buffer = <<1, 2>>
    /\ objs[1].sent = <<2>>
    /\ registry["A"] = 1


\* ------------------------------------------------------------------------
\* A session's two queues under a producer that is faster than its worker:
\* session_replay_loop puts a row every 0.25 / speed seconds, the worker
\* thread takes what it can, the broadcaster drains what the worker made.
\* ------------------------------------------------------------------------
MaxFastRows == 2001
MaxWorkerGets == 2

\* queue.Queue(maxsize=0) of UserSession.__init__; the process-wide queues
\* of main.py are made with the sizes Q_IN and Q_OUT
SESSION_QUEUE_MAXSIZE == 0
Q_IN == 2000
Q_OUT == 2000

\* queue.Queue.full(): a queue whose maxsize is 0 or less is never full
QueueIsFull(q, maxsize) == maxsize > 0 /\ Len(q) >= maxsize

\* queue.Queue.put_nowait: <<raised queue.Full, the queue afterwards>>
put_nowait(q, maxsize, item) ==
    IF QueueIsFull(q, maxsize) THEN <<TRUE, q>> ELSE <<FALSE, Append(q, item)>>

ingestOthers ==
    <<engineVars, procVars, workerVars, sessionVars, regimeVars, routerVars,
      unitVars, play, ctl, errs, bufs, hist, probeVars>>

\* session_replay_loop: the next row is put on raw_snapshot_queue; on
\* queue.Full it logs a warning, counts nothing and goes on with the next row
ReplayPut ==
    \E r \in {put_nowait(inq.raw_snapshot_queue, SESSION_QUEUE_MAXSIZE, inq.puts + 1)} :
        /\ inq.puts < MaxFastRows
        /\ inq' = [inq EXCEPT !.raw_snapshot_queue = r[2], !.puts = @ + 1]
        /\ UNCHANGED ingestOthers

\* session_analytics_worker: get a snapshot, process it, put the result on
\* processed_snapshot_queue (a blocking put, which a queue that is never
\* full never blocks)
IngestWorker ==
    /\ inq.gets < MaxWorkerGets
    /\ inq.raw_snapshot_queue # <<>>
    /\ ~QueueIsFull(inq.processed_snapshot_queue, SESSION_QUEUE_MAXSIZE)
    /\ inq' = [inq EXCEPT
                 !.raw_snapshot_queue = QueueGet(@)[2],
                 !.processed_snapshot_queue =
                     Append(@, QueueGet(inq.raw_snapshot_queue)[1]),
                 !.gets = @ + 1]
    /\ UNCHANGED ingestOthers

\* session_broadcast_loop: get_nowait from processed_snapshot_queue
IngestBroadcast ==
    /\ inq.processed_snapshot_queue # <<>>
    /\ inq' = [inq EXCEPT !.processed_snapshot_queue = QueueGet(@)[2]]
    /\ UNCHANGED ingestOthers

InitIngest == InitEngine

NextIngest ==
    \/ ReplayPut
    \/ IngestWorker
    \/ IngestBroadcast

SpecIngest == InitIngest /\ [][NextIngest]_vars

\* C27: the session's ingest queue never holds more than Q_IN snapshots and
\* its outbound queue never more than Q_OUT; a put on an ingest queue that
\* holds Q_IN snapshots drops the snapshot and adds one to the queue_full
\* counter.
C27_QueuesBoundedDropAndCount ==
    [][ /\ Len(inq'.raw_snapshot_queue) <= Q_IN
        /\ Len(inq'.processed_snapshot_queue) <= Q_OUT
        /\ (inq'.puts # inq.puts /\ Len(inq.raw_snapshot_queue) = Q_IN) =>
              /\ inq'.raw_snapshot_queue = inq.raw_snapshot_queue
              /\ inq'.queue_full = inq.queue_full + 1
      ]_vars


\* ------------------------------------------------------------------------
\* The buffers of enriched snapshots kept for clients: main.py's data_buffer
\* list, written by every session's worker thread and by
\* processed_broadcast_loop, and one session's data_buffer deque, written
\* by its broadcaster.  bufs.appended and bufs.emitted record everything
\* that was ever appended to the one and to the other.
\* ------------------------------------------------------------------------
MaxProcessed == 101
MaxQueued == 2
MaxSharedAppends == 1

MAX_BUFFER == 100
SESSION_BUFFER_MAXLEN == 100

\* the n most recent elements of s, in order
MostRecent(s, n) ==
    IF n <= 0 THEN <<>> ELSE SubSeq(s, Max(1, Len(s) - n + 1), Len(s))

\* data_buffer.append(x); if len(data_buffer) > MAX_BUFFER: data_buffer.pop(0)
AppendAndTrim(buf, x) ==
    IF Len(buf) + 1 > MAX_BUFFER THEN Tail(Append(buf, x)) ELSE Append(buf, x)

buffersOthers ==
    <<engineVars, procVars, workerVars, sessionVars, regimeVars, routerVars,
      unitVars, play, ctl, errs, inq, hist, probeVars>>

\* session_analytics_worker: the processed snapshot is appended to the
\* process-wide data_buffer and put on the session's processed queue
SessionWorkerAppends ==
    /\ bufs.processed < MaxProcessed
    /\ Len(bufs.processed_snapshot_queue) < MaxQueued
    /\ bufs' = [bufs EXCEPT
                  !.data_buffer = Append(@, bufs.processed + 1),
                  !.appended = Append(@, bufs.processed + 1),
                  !.processed_snapshot_queue = Append(@, bufs.processed + 1),
                  !.processed = @ + 1]
    /\ UNCHANGED buffersOthers

\* session_broadcast_loop: the next processed snapshot goes to the session's
\* data_buffer, a deque(maxlen=100)
SessionBroadcastAppends ==
    /\ bufs.processed_snapshot_queue # <<>>
    /\ bufs' = [bufs EXCEPT
                  !.processed_snapshot_queue = QueueGet(@)[2],
                  !.session_buffer =
                      RingAppend(@, QueueGet(bufs.processed_snapshot_queue)[1],
                                 SESSION_BUFFER_MAXLEN),
                  !.emitted = Append(@, QueueGet(bufs.processed_snapshot_queue)[1])]
    /\ UNCHANGED buffersOthers

\* processed_broadcast_loop: a snapshot of the process-wide pipeline is
\* appended to data_buffer, which is then trimmed by one element
SharedBroadcastAppends ==
    /\ bufs.processed < MaxProcessed
    /\ bufs.shared < MaxSharedAppends
    /\ bufs' = [bufs EXCEPT
                  !.data_buffer = AppendAndTrim(@, bufs.processed + 1),
                  !.appended = Append(@, bufs.processed + 1),
                  !.processed = @ + 1,
                  !.shared = @ + 1]
    /\ UNCHANGED buffersOthers

InitBuffers == InitEngine

NextBuffers ==
    \/ SessionWorkerAppends
    \/ SessionBroadcastAppends
    \/ SharedBroadcastAppends

SpecBuffers == InitBuffers /\ [][NextBuffers]_vars

\* C29: the session's data_buffer and the process-wide data_buffer each hold
\* at most 100 snapshots, namely the most recent ones appended to them, in
\* the order in which they were appended.
C29_RetainedBuffersHoldLastHundred ==
    /\ Len(bufs.session_buffer) <= SESSION_BUFFER_MAXLEN
    /\ bufs.session_buffer = MostRecent(bufs.emitted, SESSION_BUFFER_MAXLEN)
    /\ Len(bufs.data_buffer) <= MAX_BUFFER
    /\ bufs.data_buffer = MostRecent(bufs.appended, MAX_BUFFER)


\* ------------------------------------------------------------------------
\* The audit ring of an AlertManager: log_alert appends, GET /alerts/history
\* reads with a limit.  Alert number n is logged at time n; hist.logged
\* counts the alerts logged so far.
\* ------------------------------------------------------------------------
MaxLogged == 1001
MaxMixedAlerts == 1

\* the limits a client asks for
HistoryLimits == {0, 1, 10, 1000, 999999}

AuditAlerts(n) ==
    IF n < MaxMixedAlerts
    THEN {Alert("SPOOFING", "high", <<1>>), Alert("LAYERING", "medium", <<1>>)}
    ELSE {Alert("SPOOFING", "high", <<1>>)}

\* the Python slice s[first:]
PySliceFrom(s, first) ==
    IF first < 0
    THEN SubSeq(s, Max(Len(s) + first, 0) + 1, Len(s))
    ELSE SubSeq(s, Min(first, Len(s)) + 1, Len(s))

\* AlertManager.get_alert_history: list(self.alert_history)[-limit:]
get_alert_history(m, limit) == PySliceFrom(m.alert_history, 0 - limit)

auditOthers ==
    <<engineVars, procVars, workerVars, sessionVars, regimeVars, routerVars,
      aphist, amlast, lay, vp, ice, play, ctl, errs, inq, bufs, probeVars>>

\* manager.log_alert(alert, timestamp)
LogAlert ==
    \E alert \in AuditAlerts(hist.logged) :
        /\ hist.logged < MaxLogged
        /\ am' = log_alert(am, alert, hist.logged + 1)
        /\ hist' = [NoHistory EXCEPT !.logged = hist.logged + 1]
        /\ UNCHANGED auditOthers

\* GET /alerts/history?limit=...
GetAlertHistory ==
    \E limit \in HistoryLimits :
        /\ hist' = [op |-> "get_alert_history", limit |-> limit,
                    returned |-> get_alert_history(am, limit),
                    logged |-> hist.logged]
        /\ UNCHANGED <<am, auditOthers>>

InitAudit == InitEngine

NextAudit ==
    \/ LogAlert
    \/ GetAlertHistory

SpecAudit == InitAudit /\ [][NextAudit]_vars

\* C30: the audit ring holds at most 1000 entries, namely the most recent
\* alerts logged, oldest first; and get_alert_history(limit), for any
\* limit >= 0, returns at most limit entries, namely the most recent ones of
\* the ring in chronological order.
C30_AuditRingAndHistoryLimit ==
    /\ Len(am.alert_history) <= ALERT_HISTORY_MAX
    /\ \A i \in DOMAIN am.alert_history :
          am.alert_history[i].timestamp = hist.logged - Len(am.alert_history) + i
    /\ hist.op = "get_alert_history" =>
          /\ Len(hist.returned) <= hist.limit
          /\ hist.returned = MostRecent(am.alert_history, hist.limit)


\* ------------------------------------------------------------------------
\* Sanitizing as stated: a non-finite or negative number gives way to its
\* default, every other number stays.
\* ------------------------------------------------------------------------
StatedNumber(v, default) ==
    IF ~_is_valid_number(v) THEN default
    ELSE IF v < 0 THEN default ELSE v

StatedLevels(levels) ==
    [i \in DOMAIN levels |->
        << StatedNumber(levels[i][1], DEFAULT_PRICE),
           StatedNumber(levels[i][2], DEFAULT_VOLUME) >>]

CleanLevels(levels) ==
    \A i \in DOMAIN levels :
        /\ _is_valid_number(levels[i][1]) /\ levels[i][1] > 0
        /\ _is_valid_number(levels[i][2]) /\ levels[i][2] >= 0

\* C31: sanitize_snapshot replaces every non-finite or negative price, volume
\* or mid_price by its default (price 100, volume 0) and leaves every other
\* value as it is, so that a sanitized snapshot holds finite positive prices
\* and finite non-negative volumes only; process_snapshot validates the
\* sanitized snapshot once more and a second failure is fatal.
C31_SanitizeReplacesBadNumbers ==
    (/\ last.op = "process_snapshot"
     /\ last.snap.has = {"bids", "asks", "mid_price"}
     /\ ~SanitizeRaises(last.snap))
    => /\ sanitize_snapshot(last.snap).mid = StatedNumber(last.snap.mid, DEFAULT_PRICE)
       /\ sanitize_snapshot(last.snap).bids = StatedLevels(last.snap.bids)
       /\ sanitize_snapshot(last.snap).asks = StatedLevels(last.snap.asks)
       /\ CleanLevels(sanitize_snapshot(last.snap).bids)
       /\ CleanLevels(sanitize_snapshot(last.snap).asks)
       /\ sanitize_snapshot(last.snap).mid > 0
       /\ ~is_valid(last.snap) =>
             (last.outcome = "invalid" <=> ~is_valid(sanitize_snapshot(last.snap)))


\* ------------------------------------------------------------------------
\* The regime a caller reports (callers[c].regime is the local variable
\* "regime" of process_snapshot, written to snapshot['regime'] at the end)
\* ------------------------------------------------------------------------
\* C32: the reported regime is always one of 0, 1, 2, 3; it is 0 as long as
\* no training run has published its model; and a training thread is only
\* started when the feature ring holds more than 50 vectors.
C32_RegimeRangeAndTrainingThreshold ==
    [][ /\ \A c \in Sessions :
             /\ callers'[c].regime \in 0..3
             /\ ~regime'.is_fitted => callers'[c].regime = 0
        /\ Len(runs') > Len(runs) => regime.n_feature_history > FEATURE_MIN
      ]_vars

\* with the second run's model published, one worker reports regime 3 and
\* the other regime 1
C32_Witness ==
    /\ regime.is_fitted
    /\ regime.cluster_map = 2
    /\ Len(runs) = 2
    /\ callers["A"].regime = 3
    /\ callers["B"].regime = 1


\* ------------------------------------------------------------------------
\* What a client receives on one WebSocket connection
\* ------------------------------------------------------------------------
\* C33: on every connection the first message received is the history, every
\* later message is an enriched snapshot, and no snapshot of the stream was
\* already in that history.
C33_HistoryFirstNoDuplicate ==
    \A w \in WebSockets :
        ws[w].got # <<>> =>
            /\ ws[w].got[1].type = "history"
            /\ \A i \in 2..Len(ws[w].got) :
                  /\ ws[w].got[i].type = "snapshot"
                  /\ ws[w].got[i].data[1] \notin Range(ws[w].got[1].data)

\* a second client of a session joins after snapshot 1 was appended: its
\* history holds snapshot 1 and its stream goes on with snapshot 2
C33_Witness ==
    ws["w2"].got = << HistoryMessage(<<1>>), SnapshotMessage(2) >>


\* ------------------------------------------------------------------------
\* Idle sessions and the periodic cleanup.  Two sessions are connected;
\* time passes in quarter hours; session "A" gets playback calls, session
\* "B" gets none.  cleanup_sessions_periodically wakes every five minutes,
\* so a cleanup can come at any of these times.
\* ------------------------------------------------------------------------
MaxIdleClock == 2700

\* seconds that pass in one step
IdleSteps == {900}

TimePasses ==
    \E dt \in IdleSteps :
        /\ clock + dt <= MaxIdleClock
        /\ clock' = clock + dt
        /\ UNCHANGED <<engine, calls, last, procVars, workerVars, sessionVars, restVars>>

\* the ids cleanup_inactive_sessions collects in "inactive"
InactiveIds ==
    {sid \in Sessions : registry[sid] # 0 /\ ~is_active(objs[registry[sid]])}

\* SessionManager.cleanup_inactive_sessions
CleanupInactiveSessions ==
    /\ objs' = [k \in DOMAIN objs |->
                  IF \E sid \in InactiveIds : registry[sid] = k
                  THEN shutdown(objs[k]) ELSE objs[k]]
    /\ registry' = [sid \in Sessions |->
                      IF sid \in InactiveIds THEN 0 ELSE registry[sid]]
    /\ UNCHANGED <<conns, ws, engineVars, procVars, workerVars, restVars>>

\* websocket_endpoint has created sessions "A" and "B" and connected one
\* websocket to each
InitCleanup ==
    /\ engine = EngineInit(0)
    /\ clock = 0
    /\ calls = 0
    /\ last = NoResult
    /\ ProcIdle
    /\ WorkersIdle
    /\ RestIdle
    /\ registry = [sid \in Sessions |-> IF sid = "A" THEN 1 ELSE 2]
    /\ objs = << NewSession("A"), NewSession("B") >>
    /\ conns = [sid \in Sessions |-> IF sid = "A" THEN "w1" ELSE "w2"]
    /\ ws = [w \in WebSockets |->
               [st |-> "open", sid |-> IF w = "w1" THEN "A" ELSE "B",
                obj |-> IF w = "w1" THEN 1 ELSE 2,
                got |-> << HistoryMessage(<<>>) >>]]

NextCleanup ==
    \/ TimePasses
    \/ CleanupInactiveSessions
    \/ StartReplay
    \/ PauseReplay
    \/ SessionReplayLoop
    \/ WorkerCheck
    \/ WorkerGet
    \/ WorkerTimeout
    \/ WorkerPut
    \/ BroadcastCheck
    \/ BroadcastSend

SpecCleanup == InitCleanup /\ [][NextCleanup]_vars

\* C34: cleanup_inactive_sessions unregisters exactly the sessions whose
\* is_active() is false; each of them ends STOPPED with cursor unset, both
\* buffers empty and is_active() false; every other session stays
\* registered and is untouched.
C34_CleanupFrame ==
    [][ CleanupInactiveSessions =>
          /\ \A sid \in Sessions :
                registry[sid] # 0 =>
                   IF is_active(objs[registry[sid]])
                   THEN /\ registry'[sid] = registry[sid]
                        /\ objs'[registry[sid]] = objs[registry[sid]]
                   ELSE /\ registry'[sid] = 0
                        /\ objs'[registry[sid]].state = "STOPPED"
                        /\ objs'[registry[sid]].cursor_ts = None
                        /\ objs'[registry[sid]].data_buffer = <<>>
                        /\ objs'[registry[sid]].replay_buffer = <<>>
                        /\ ~objs'[registry[sid]].running
                        /\ ~is_active(objs'[registry[sid]])
          /\ \A sid \in Sessions : registry[sid] = 0 => registry'[sid] = 0
          /\ \A k \in DOMAIN objs :
                (\A sid \in Sessions : registry[sid] # k) => objs'[k] = objs[k]
      ]_vars

\* idle session "B" was removed after half an hour while session "A", which
\* was started a quarter of an hour ago, plays on with a snapshot in its
\* buffer
C34_Witness ==
    /\ clock = 1800
    /\ registry["B"] = 0
    /\ ~objs[2].running
    /\ registry["A"] = 1
    /\ objs[1].state = "PLAYING"
    /\ objs[1].last_activity = 900
    /\ objs[1].data_buffer # <<>>

\* C36: a registered session whose is_active() is true has its analytics
\* worker, its replay loop and its broadcaster running.
C36_ActiveSessionHasWorkers ==
    \A sid \in Sessions :
        (registry[sid] # 0 /\ is_active(objs[registry[sid]])) =>
            /\ objs[registry[sid]].wpc # "done"
            /\ objs[registry[sid]].rpc # "done"
            /\ objs[registry[sid]].bpc # "done"


\* ------------------------------------------------------------------------
\* The spoofing event counter over a long run.  The engine goes through the
\* part of process_snapshot that the counter depends on: the L1 volume
\* average (lines 1143-1147), the spoofing section (lines 1158-1195) and the
\* previous book (the end of the tick).  The book is quiet until the risk
\* ring (deque(maxlen=100), line 568) is almost full; after that every tick
\* may be quiet, pile volume on both L1 levels, or pull it.
\* ------------------------------------------------------------------------
MaxSpoofTicks == 104
SpoofQuietTicks == 96
DECAY_EVERY == 10

S_pile   == Snap(10000, << <<9995, 400>> >>, << <<10005, 400>> >>)
S_pulled == Snap(10000, << <<9995, 1>> >>, << <<10005, 1>> >>)

SpoofPool(n) == IF n < SpoofQuietTicks THEN {S_norm}
                ELSE {S_norm, S_pile, S_pulled}

SpoofHits(e, s) ==
    (IF SpoofSide(e, e.prev_bids, s.bids) THEN 1 ELSE 0)
    + (IF SpoofSide(e, e.prev_asks, s.asks) THEN 1 ELSE 0)

SpoofSection(e, s) == PrevBookBlock(SpoofBlock(L1VolBlock(e, s), s), s)

SpoofTick ==
    /\ spoof.ticks < MaxSpoofTicks
    /\ \E s \in SpoofPool(spoof.ticks) :
          \E hits \in {SpoofHits(L1VolBlock(engine, s), s)} :
          \E after \in {SpoofSection(engine, s)} :
          \E decayed \in {after.spoofing_events_count
                            < engine.spoofing_events_count + hits} :
             /\ engine' = after
             /\ spoof' = [ticks  |-> spoof.ticks + 1,
                          before |-> engine.spoofing_events_count,
                          hits   |-> hits,
                          last_decay |-> IF decayed THEN spoof.ticks + 1
                                         ELSE spoof.last_decay,
                          gap    |-> IF decayed /\ spoof.last_decay # 0
                                     THEN spoof.ticks + 1 - spoof.last_decay
                                     ELSE spoof.gap]
    /\ UNCHANGED <<clock, calls, last, procVars, workerVars, sessionVars,
                   regimeVars, routerVars, unitVars, play, ctl, errs, inq,
                   bufs, hist, twin>>

InitSpoof == InitEngine

NextSpoof == SpoofTick
SpecSpoof == InitSpoof /\ [][NextSpoof]_vars

\* C35: the spoofing event counter is never negative, grows by one for each
\* detected spoof, loses at most 1 on a tick, and two decays are never less
\* than 10 ticks apart, however long the run is.
C35_SpoofCounterDecaysEveryTenTicks ==
    /\ engine.spoofing_events_count >= 0
    /\ engine.spoofing_events_count
         \in {spoof.before + spoof.hits, spoof.before + spoof.hits - 1}
    /\ spoof.gap # 0 => spoof.gap >= DECAY_EVERY


\* C37: once stop() has returned, cursor_ts stays unset and replay_buffer
\* stays empty for as long as the state is STOPPED, and no snapshot is put
\* on the ingest queue while the state is STOPPED or PAUSED, whatever the
\* replay loop was doing when the control call arrived.
C37_StoppedOrPausedIngestsNothing ==
    [][ /\ play'.state = "STOPPED"
           => play'.cursor_ts = None /\ play'.replay_buffer = <<>>
        /\ play.state \in {"STOPPED", "PAUSED"}
           => play'.ingest = play.ingest ]_vars


\* ------------------------------------------------------------------------
\* ConnectionManager (main.py 291-308).  websocket_to_session holds the
\* websockets whose endpoint is between manager.connect and
\* manager.disconnect: the ones that are "open".
\* ------------------------------------------------------------------------
websocket_to_session(sockets, sid) ==
    {w \in WebSockets : sockets[w].st = "open" /\ sockets[w].sid = sid}

\* C38: active_connections[s] is the most recently connected websocket of
\* session s that has not itself disconnected: a websocket that connects
\* is registered, the registered websocket stays registered until it
\* disconnects or another one connects, a session with a connected
\* websocket has one of them registered, and a session without has none.
C38_NewestLiveWebsocketIsRegistered ==
    [][ \A sid \in Sessions :
          \E live \in {websocket_to_session(ws', sid)} :
          \E came \in {live \ websocket_to_session(ws, sid)} :
             /\ live = {} => conns'[sid] = "none"
             /\ live # {} => conns'[sid] \in live
             /\ came # {} => conns'[sid] \in came
             /\ (came = {} /\ conns[sid] \in live) => conns'[sid] = conns[sid]
      ]_vars


\* C39: once the primary has been re-enabled by set_cpp_client (the mode is
\* cpp again and a client is set), the next calls of process are routed to
\* the primary, whatever happened before the re-enable.
C39_ReenabledPrimaryIsUsed ==
    [][ (calls' = calls + 1 /\ last'.op = "process"
         /\ proc.engine_mode = "cpp" /\ proc.cpp_client)
        => last'.primary_called ]_vars


\* ------------------------------------------------------------------------
\* The two detectors side by side.  The same snapshots go, tick by tick, to
\* an engine that runs process_snapshot (what a worker does after a primary
\* failure) and to a fresh engine that only ever runs
\* detect_advanced_anomalies (what a worker does after a primary success,
\* main.py 358-369).  Both lists are taken before the AlertManager.
\* ------------------------------------------------------------------------
MaxTwinTicks == 4

S_walled == Snap(10000,
                 << <<9995, 100>>, <<9990, 100>>, <<9985, 100>>, <<9980, 100>> >>,
                 << <<10005, 2000>>, <<10010, 1>>, <<10015, 1>>, <<10020, 1>> >>)

TwinPool == {S_norm, S_deep, S_move, S_walled}

AdvancedTypes ==
    {"QUOTE_STUFFING", "LAYERING", "MOMENTUM_IGNITION", "WASH_TRADING",
     "ICEBERG_ORDER"}

AdvancedOf(alerts) ==
    LET sel == SelectSeq(alerts, LAMBDA a : a.type \in AdvancedTypes)
    IN  [i \in 1..Len(sel) |-> sel[i].type]

TwinTick ==
    /\ twin.ticks < MaxTwinTicks
    /\ \E s \in TwinPool :
          /\ is_valid(s)
          /\ \E full \in {Sections(engine, s, clock + 1)},
                post \in {detect_advanced_anomalies(twin.engine, s, clock + 1)} :
                /\ engine' = process_snapshot(engine, s, clock + 1, 10).engine
                /\ twin' = [engine   |-> post.engine,
                            advanced |-> AdvancedOf(post.anomalies),
                            full     |-> AdvancedOf(full.anomalies),
                            raised   |-> post.raised \/ full.raised,
                            ticks    |-> twin.ticks + 1]
    /\ clock' = clock + 1
    /\ UNCHANGED <<calls, last, procVars, workerVars, sessionVars,
                   regimeVars, routerVars, unitVars, play, ctl, errs, inq,
                   bufs, hist, spoof>>

InitTwin == InitEngine
NextTwin == TwinTick
SpecTwin == InitTwin /\ [][NextTwin]_vars

\* C40: on every tick on which neither detector raises, the post-pass on
\* its own engine and the full pipeline emit QUOTE_STUFFING, LAYERING,
\* MOMENTUM_IGNITION, WASH_TRADING and ICEBERG_ORDER alerts of the same
\* types, in the same order.
C40_BothDetectorsEmitTheSame ==
    ~twin.raised => twin.advanced = twin.full

=============================================================================
